---------------------------- MODULE Spec2Model ----------------------------
(***************************************************************************)
(* Fractribution: fractional attribution of conversions to marketing      *)
(* channels.                                                                *)
(*                                                                          *)
(* Two pipelines of the repository are modelled:                           *)
(*   - class Fractribution of src/py/fractribution.py (the store           *)
(*     path_tuple_to_summary, built by __init__ and attributed by          *)
(*     run_fractribution with one of five models);                         *)
(*   - the functions of src/py/fractribution_model/fractribution.py        *)
(*     (transform_paths builds transformed_tuple_to_path and               *)
(*     channel_to_encoding, compute_fractional_values attributes it).      *)
(*                                                                          *)
(* Modelling conventions.                                                   *)
(*   Strings.  A channel or event name is the record [base, suffix]: its   *)
(*     text is base followed by suffix, base holds no parenthesis and      *)
(*     suffix is either empty or starts at the first "(" of the text.      *)
(*     A path string is the sequence of the names that " > " separates in  *)
(*     it; the empty string is the empty sequence.                         *)
(*   Numbers.  Python floats are modelled as exact rationals <<n, d>> in   *)
(*     lowest terms with d > 0 (0.4 is <<2, 5>>); the rounding of IEEE     *)
(*     arithmetic is not modelled.  Python ints are unbounded.             *)
(*   Dicts.  A dict is a function whose DOMAIN is its key set; the empty   *)
(*     dict is <<>>.                                                        *)
(***************************************************************************)
EXTENDS Integers, Sequences, FiniteSets, Bags, TLC

VARIABLES
    pc,                        \* position of the driver: which loop runs
    query_job,                 \* bag of the path-summary rows consumed so far
    path_tuple_to_summary,     \* Fractribution._path_tuple_to_summary
    last_run,                  \* last operation applied to the built store
    models_run,                \* number of run_fractribution calls so far
    path_transform,            \* name of the transform given to transform_paths
    channel_to_encoding,       \* transform_paths: raw name -> token
    channel_mapping_iterator,  \* number of tokens the generator has yielded
    transformed_tuple_to_path, \* transform_paths: tuple -> tuple_path.Path
    transform_input,           \* tuple_transforms: the tuple t of the first call
    transform_output,          \* tuple_transforms: the tuple the last call returned
    transform_calls,           \* tuple_transforms: names of the calls made
    customer_path_string,      \* report: path_string of the customer joined last
    path_and_event_to_attribution, \* report: what the join of that customer gave
    report_channels,           \* report: the channel list of the report schema
    report_customers,          \* report: the customer records read so far
    report_rows,               \* report: the list rows of the running join
    report_inserts,            \* report: the row lists given to client.insert_rows
    report_raised,             \* report: the exception that ended the join
    overall_channel_to_attribution, \* upload_report_table: the channel rollup
    parse_int                  \* parse_int_param: the arguments and the outcome

vars == <<pc, query_job, path_tuple_to_summary, last_run, models_run,
          path_transform, channel_to_encoding, channel_mapping_iterator,
          transformed_tuple_to_path, transform_input, transform_output,
          transform_calls, customer_path_string,
          path_and_event_to_attribution, report_channels, report_customers,
          report_rows, report_inserts, report_raised,
          overall_channel_to_attribution, parse_int>>

classVars == <<path_tuple_to_summary, last_run, models_run>>
modelVars == <<path_transform, channel_to_encoding, channel_mapping_iterator,
               transformed_tuple_to_path>>
transformVars == <<transform_input, transform_output, transform_calls>>
reportVars == <<customer_path_string, path_and_event_to_attribution>>
joinVars == <<report_channels, report_customers, report_rows, report_inserts,
              report_raised>>
resultVars == <<overall_channel_to_attribution, parse_int>>
auxVars == <<transformVars, reportVars, joinVars, resultVars>>

-----------------------------------------------------------------------------
(* Bounds of the model.                                                    *)

\* Longest text of an input parameter, and the largest int and bound.
MaxParamLen == 2
MaxParam == 2

\* Rows a path-summary query yields at most.
MaxRecords == 3
\* run_fractribution calls made on one store at most.
MaxRuns == 2
\* Longest path of the single-path specification.
MaxPathLen == 4
\* Customer records a join reads at most.
MaxCustomers == 3
\* Customer records an upload reads at most.
MaxUploads == 5
\* fractribution_report._MAX_ROW_BATCH_SIZE, which is 10000 in the source,
\* scaled down so that an upload fills batches.
MAX_ROW_BATCH_SIZE == 2
\* Longest tuple given to a transform, the example of the module apart.
MaxTupleLen == 4
\* Calls of the transforms made in a row, each on the result of the last.
MaxCalls == 2

-----------------------------------------------------------------------------
(* Strings.                                                                *)

Name(base) == [base |-> base, suffix |-> ""]
EmptyName == Name("")
EmptyStr == <<>>

\* str.split(' > '): the empty string splits into one empty name.
Split(path_str) == IF path_str = EmptyStr THEN <<EmptyName>> ELSE path_str

Range(t) == {t[i] : i \in 1..Len(t)}

\* t[:i] + t[i+1:] of Python, for the 1-based position i.
DeleteAt(t, i) == [j \in 1..(Len(t) - 1) |-> IF j < i THEN t[j] ELSE t[j + 1]]

-----------------------------------------------------------------------------
(* Exact rationals standing for Python's numbers.                          *)

Abs(n) == IF n < 0 THEN -n ELSE n

RECURSIVE GCD(_, _)
GCD(a, b) == IF b = 0 THEN a ELSE GCD(b, a % b)

Rat(n, d) ==
    LET s == IF d < 0 THEN -1 ELSE 1
        g == GCD(Abs(n), Abs(d))
    IN  <<(s * n) \div g, (s * d) \div g>>

Zero == <<0, 1>>
One == <<1, 1>>
RInt(n) == <<n, 1>>
RAdd(x, y) == Rat(x[1] * y[2] + y[1] * x[2], x[2] * y[2])
RSub(x, y) == Rat(x[1] * y[2] - y[1] * x[2], x[2] * y[2])
RMul(x, y) == Rat(x[1] * y[1], x[2] * y[2])
RDiv(x, y) == Rat(x[1] * y[2], x[2] * y[1])
RLess(x, y) == x[1] * y[2] < y[1] * x[2]
RMax(x, y) == IF RLess(x, y) THEN y ELSE x

\* sum(list): left fold from 0.
RECURSIVE SumUpTo(_, _)
SumUpTo(s, n) == IF n = 0 THEN Zero ELSE RAdd(SumUpTo(s, n - 1), s[n])
Sum(s) == SumUpTo(s, Len(s))

\* sum(dict.values()).
RECURSIVE SumValues(_)
SumValues(d) ==
    IF DOMAIN d = {} THEN Zero
    ELSE LET k == CHOOSE k \in DOMAIN d : TRUE
         IN  RAdd(d[k], SumValues([j \in DOMAIN d \ {k} |-> d[j]]))

\* dict.get(key, default) and dict[key] = value.
Get(d, key, default) == IF key \in DOMAIN d THEN d[key] ELSE default
Put(d, key, value) == [k \in DOMAIN d \cup {key} |-> IF k = key THEN value ELSE d[k]]
EmptyDict == <<>>

-----------------------------------------------------------------------------
(* class Fractribution, src/py/fractribution.py.                           *)

PathSummary(conversions, non_conversions, revenue) ==
    [conversions |-> conversions,
     non_conversions |-> non_conversions,
     revenue |-> revenue,
     channel_to_attribution |-> EmptyDict]

\* Mutant: the counts of a row replace the counts of the path it meets.
init_row_overwriting(store, row) ==
    LET path_tuple == IF row.path_str # EmptyStr
                      THEN Split(row.path_str)
                      ELSE <<>>
    IN  Put(store, path_tuple,
            PathSummary(row.conversions, row.non_conversions, row.revenue))

\* One iteration of the loop of __init__ over query_job.
Fractribution_init_row(store, row) ==
    LET path_tuple == IF row.path_str # EmptyStr
                      THEN Split(row.path_str)
                      ELSE <<>>
    IN  IF path_tuple \notin DOMAIN store
        THEN Put(store, path_tuple,
                 PathSummary(row.conversions, row.non_conversions, row.revenue))
        ELSE [store EXCEPT
                 ![path_tuple].conversions = @ + row.conversions,
                 ![path_tuple].non_conversions = @ + row.non_conversions]

\* __init__: the loop over the first n rows of query_job, in their order.
RECURSIVE Fractribution_init(_, _)
Fractribution_init(query, n) ==
    IF n = 0 THEN EmptyDict
    ELSE Fractribution_init_row(Fractribution_init(query, n - 1), query[n])

get_conversion_probability(store, path_tuple) ==
    IF path_tuple \notin DOMAIN store THEN Zero
    ELSE LET path_summary == store[path_tuple]
             count == path_summary.conversions + path_summary.non_conversions
         IN  IF count = 0 THEN Zero
             ELSE Rat(path_summary.conversions, count)

\* Mutant: the raw contributions are not floored at 0.
marginal_contributions_unfloored(store, path_tuple) ==
    IF path_tuple = <<>> THEN <<>>
    ELSE IF Len(path_tuple) = 1
         THEN <<get_conversion_probability(store, path_tuple)>>
         ELSE [i \in 1..Len(path_tuple) |->
                  RSub(get_conversion_probability(store, path_tuple),
                       get_conversion_probability(
                           store, DeleteAt(path_tuple, i)))]

get_counterfactual_marginal_contributions(store, path_tuple) ==
    IF path_tuple = <<>> THEN <<>>
    ELSE LET path_conversion_probability ==
                 get_conversion_probability(store, path_tuple)
         IN  IF Len(path_tuple) = 1
             THEN <<path_conversion_probability>>
             ELSE [i \in 1..Len(path_tuple) |->
                      RMax(RSub(path_conversion_probability,
                                get_conversion_probability(
                                    store, DeleteAt(path_tuple, i))),
                           Zero)]

\* for i, channel in enumerate(path_tuple): the credits of the first n
\* positions, summed by channel.
RECURSIVE aggregate_by_channel(_, _, _)
aggregate_by_channel(path_tuple, contributions, n) ==
    IF n = 0 THEN EmptyDict
    ELSE LET d == aggregate_by_channel(path_tuple, contributions, n - 1)
         IN  Put(d, path_tuple[n],
                 RAdd(contributions[n], Get(d, path_tuple[n], Zero)))

\* Mutant: the contributions are left as they are.
normalize_contributions_skipped(marginal_contributions) ==
    marginal_contributions

\* Lines 140-143: the contributions divided by their sum, when it is not 0.
normalize_contributions(marginal_contributions) ==
    LET sum_marginal_contributions == Sum(marginal_contributions)
    IN  IF sum_marginal_contributions # Zero
        THEN [i \in DOMAIN marginal_contributions |->
                 RDiv(marginal_contributions[i], sum_marginal_contributions)]
        ELSE marginal_contributions

\* Mutant: the fallback credits the first position.
first_touch_fallback(marginal_contributions, sum_marginal_contributions) ==
    IF sum_marginal_contributions = Zero
    THEN [marginal_contributions EXCEPT ![1] = One]
    ELSE marginal_contributions

\* Lines 145-146: last touch attribution when the contributions sum to 0.
last_touch_fallback(marginal_contributions, sum_marginal_contributions) ==
    IF sum_marginal_contributions = Zero
    THEN [marginal_contributions EXCEPT ![Len(marginal_contributions)] = One]
    ELSE marginal_contributions

\* The body of the loop of run_shapley_attribution for one attributed path.
shapley_channel_to_attribution(store, path_tuple) ==
    LET marginal_contributions ==
            get_counterfactual_marginal_contributions(store, path_tuple)
        sum_marginal_contributions == Sum(marginal_contributions)
    IN  aggregate_by_channel(
            path_tuple,
            last_touch_fallback(normalize_contributions(marginal_contributions),
                                sum_marginal_contributions),
            Len(path_tuple))

\* Mutant: paths without conversions are attributed too.
run_shapley_attribution_unguarded(store) ==
    [path_tuple \in DOMAIN store |->
        IF path_tuple = <<>>
        THEN store[path_tuple]
        ELSE [store[path_tuple] EXCEPT !.channel_to_attribution =
                 shapley_channel_to_attribution(store, path_tuple)]]

run_shapley_attribution(store) ==
    [path_tuple \in DOMAIN store |->
        IF path_tuple = <<>> \/ store[path_tuple].conversions = 0
        THEN store[path_tuple]
        ELSE [store[path_tuple] EXCEPT !.channel_to_attribution =
                 shapley_channel_to_attribution(store, path_tuple)]]

\* for channel in path_tuple: channel_to_attribution[channel] = 0.0
RECURSIVE zero_credits(_, _)
zero_credits(path_tuple, n) ==
    IF n = 0 THEN EmptyDict
    ELSE Put(zero_credits(path_tuple, n - 1), path_tuple[n], Zero)

\* Mutant: the first channel is credited before the loop that resets every
\* channel of the path.
first_touch_reset_after(path_tuple) ==
    zero_credits(path_tuple, Len(path_tuple))

first_touch_channel_to_attribution(path_tuple) ==
    Put(zero_credits(path_tuple, Len(path_tuple)), path_tuple[1], One)

run_first_touch_attribution(store) ==
    [path_tuple \in DOMAIN store |->
        [store[path_tuple] EXCEPT !.channel_to_attribution =
            IF path_tuple = <<>> THEN EmptyDict
            ELSE first_touch_channel_to_attribution(path_tuple)]]

last_touch_channel_to_attribution(path_tuple) ==
    Put(zero_credits(path_tuple, Len(path_tuple)),
        path_tuple[Len(path_tuple)], One)

run_last_touch_attribution(store) ==
    [path_tuple \in DOMAIN store |->
        [store[path_tuple] EXCEPT !.channel_to_attribution =
            IF path_tuple = <<>> THEN EmptyDict
            ELSE last_touch_channel_to_attribution(path_tuple)]]

\* for channel in channels: d[channel] = d.get(channel, 0.0) + credit,
\* over the first n elements of channels.
RECURSIVE add_credit(_, _, _, _)
add_credit(d, channels, credit, n) ==
    IF n = 0 THEN d
    ELSE LET e == add_credit(d, channels, credit, n - 1)
         IN  Put(e, channels[n], RAdd(Get(e, channels[n], Zero), credit))

\* Mutant: the credit of a position replaces the credit of its channel.
linear_overwriting(path_tuple) ==
    [channel \in Range(path_tuple) |-> RDiv(One, RInt(Len(path_tuple)))]

linear_channel_to_attribution(path_tuple) ==
    LET credit == RDiv(One, RInt(Len(path_tuple)))
    IN  add_credit(EmptyDict, path_tuple, credit, Len(path_tuple))

run_linear_attribution(store) ==
    [path_tuple \in DOMAIN store |->
        [store[path_tuple] EXCEPT !.channel_to_attribution =
            IF path_tuple = <<>> THEN EmptyDict
            ELSE linear_channel_to_attribution(path_tuple)]]

\* Mutant: the credit of the last position replaces that of the first.
position_based_ends_overwriting(path_tuple) ==
    Put(Put(EmptyDict, path_tuple[1], <<2, 5>>),
        path_tuple[Len(path_tuple)], <<2, 5>>)

\* Lines 206-208: 0.4 for the first channel, 0.4 more for the last one.
position_based_ends(path_tuple) ==
    LET first == Put(EmptyDict, path_tuple[1], <<2, 5>>)
    IN  Put(first, path_tuple[Len(path_tuple)],
            RAdd(Get(first, path_tuple[Len(path_tuple)], Zero), <<2, 5>>))

\* Lines 209-222, leftover_credit.
position_based_leftover_credit(path_tuple) ==
    IF Len(path_tuple) = 1 THEN <<1, 5>>
    ELSE IF Len(path_tuple) = 2 THEN <<1, 10>>
    ELSE RDiv(<<1, 5>>, RInt(Len(path_tuple) - 2))

\* Mutant: the leftover credit goes to every position, the ends included.
position_based_middle_with_ends(path_tuple) == path_tuple

\* Lines 209-222, middle_path.
position_based_middle_path(path_tuple) ==
    IF Len(path_tuple) = 1 \/ Len(path_tuple) = 2 THEN path_tuple
    ELSE SubSeq(path_tuple, 2, Len(path_tuple) - 1)

position_based_channel_to_attribution(path_tuple) ==
    LET middle_path == position_based_middle_path(path_tuple)
    IN  add_credit(position_based_ends(path_tuple), middle_path,
                   position_based_leftover_credit(path_tuple), Len(middle_path))

run_position_based_attribution(store) ==
    [path_tuple \in DOMAIN store |->
        [store[path_tuple] EXCEPT !.channel_to_attribution =
            IF path_tuple = <<>> THEN EmptyDict
            ELSE position_based_channel_to_attribution(path_tuple)]]

\* re.sub(r'\(.*', '', channel): the channel cut at its first '('.
normalized_channel(channel) == [base |-> channel.base, suffix |-> ""]

\* Mutant: the credit of a channel replaces the credit its normalized name
\* holds already.
RECURSIVE normalize_overwriting(_, _)
normalize_overwriting(channel_to_attribution, channels) ==
    IF channels = {} THEN EmptyDict
    ELSE LET channel == CHOOSE channel \in channels : TRUE
             before == normalize_overwriting(channel_to_attribution,
                                             channels \ {channel})
         IN  Put(before, normalized_channel(channel),
                 channel_to_attribution[channel])

\* The inner loop of normalize_channel_to_attribution_names (and of
\* normalize_event_names) over the given channels of one credit map:
\* new[normalized] = new.get(normalized, 0) + channel_to_attribution[channel]
RECURSIVE normalize_names(_, _)
normalize_names(channel_to_attribution, channels) ==
    IF channels = {} THEN EmptyDict
    ELSE LET channel == CHOOSE channel \in channels : TRUE
             before == normalize_names(channel_to_attribution,
                                       channels \ {channel})
         IN  Put(before, normalized_channel(channel),
                 RAdd(Get(before, normalized_channel(channel), Zero),
                      channel_to_attribution[channel]))

\* Mutant: the normalizer drops the paths that hold no credit.
normalize_dropping_uncredited(store) ==
    [path_tuple \in {t \in DOMAIN store :
                        store[t].channel_to_attribution # EmptyDict} |->
        [store[path_tuple] EXCEPT !.channel_to_attribution =
            normalize_names(@, DOMAIN @)]]

normalize_channel_to_attribution_names_result(store) ==
    [path_tuple \in DOMAIN store |->
        [store[path_tuple] EXCEPT !.channel_to_attribution =
            normalize_names(@, DOMAIN @)]]

AttributionModels ==
    {"shapley", "first_touch", "last_touch", "position_based", "linear"}

ATTRIBUTION_MODELS(attribution_model, store) ==
    CASE attribution_model = "shapley" -> run_shapley_attribution(store)
      [] attribution_model = "first_touch" -> run_first_touch_attribution(store)
      [] attribution_model = "last_touch" -> run_last_touch_attribution(store)
      [] attribution_model = "position_based" ->
             run_position_based_attribution(store)
      [] attribution_model = "linear" -> run_linear_attribution(store)

\* One iteration of the loop of a model over _path_tuple_to_summary.items():
\* the path visited gets its credit map, computed from the store as the
\* iterations before it left it.
visit_path(attribution_model, store, path_tuple) ==
    [store EXCEPT ![path_tuple] =
        ATTRIBUTION_MODELS(attribution_model, store)[path_tuple]]

\* The loop of a model over the first n keys of the store in the given
\* order of iteration.
RECURSIVE run_in_order(_, _, _, _)
run_in_order(attribution_model, store, order, n) ==
    IF n = 0 THEN store
    ELSE visit_path(attribution_model,
                    run_in_order(attribution_model, store, order, n - 1),
                    order[n])

-----------------------------------------------------------------------------
(* src/py/fractribution_model: tuple_transforms.py, tuple_path.py and      *)
(* fractribution.py.                                                       *)

ValueError == "ValueError"

unique_transform(t) == t

\* Mutant: an element is kept when the elements kept before do not hold it.
RECURSIVE exposure_prefix_unseen(_, _)
exposure_prefix_unseen(t, n) ==
    IF n = 0 THEN <<>>
    ELSE LET kept == exposure_prefix_unseen(t, n - 1)
         IN  IF t[n] \notin Range(kept) THEN Append(kept, t[n]) ELSE kept

\* tuple(el for i, el in enumerate(t) if i == 0 or el != t[i-1])
RECURSIVE exposure_prefix(_, _)
exposure_prefix(t, n) ==
    IF n = 0 THEN <<>>
    ELSE IF n = 1 \/ t[n] # t[n - 1]
         THEN Append(exposure_prefix(t, n - 1), t[n])
         ELSE exposure_prefix(t, n - 1)

exposure_transform(t) == exposure_prefix(t, Len(t))

\* Mutant: an element met again moves to the end of elements.
RECURSIVE first_prefix_last_seen(_, _)
first_prefix_last_seen(t, n) ==
    IF n = 0 THEN <<>>
    ELSE LET elements == first_prefix_last_seen(t, n - 1)
         IN  Append(SelectSeq(elements, LAMBDA el : el # t[n]), t[n])

\* The loop of first_transform over the first n elements: elements holds
\* each element not seen before (element_set is the range of elements).
RECURSIVE first_prefix(_, _)
first_prefix(t, n) ==
    IF n = 0 THEN <<>>
    ELSE LET elements == first_prefix(t, n - 1)
         IN  IF t[n] \notin Range(elements)
             THEN Append(elements, t[n])
             ELSE elements

\* Mutant: the loop stops before the last element.
first_transform_short_loop(t) ==
    IF t = <<>> THEN <<>> ELSE first_prefix(t, Len(t) - 1)

first_transform(t) == first_prefix(t, Len(t))

\* re.search(r'\(|\)', event): a parenthesis in the text of the event.
HasParenthesis(event) == event.suffix # ""

\* event + '(%i)' % count, for an event without parenthesis.
WithCount(event, count) ==
    [base |-> event.base, suffix |-> "(" \o ToString(count) \o ")"]

\* Mutant: an event met again keeps the count 1.
RECURSIVE event_to_count_ones(_, _)
event_to_count_ones(t, n) ==
    IF n = 0 THEN EmptyDict
    ELSE Put(event_to_count_ones(t, n - 1), t[n], 1)

\* The first loop of frequency_transform over the first n elements:
\* event_to_count[event] = event_to_count.get(event, 0) + 1
RECURSIVE event_to_count(_, _)
event_to_count(t, n) ==
    IF n = 0 THEN EmptyDict
    ELSE LET counts == event_to_count(t, n - 1)
         IN  Put(counts, t[n], Get(counts, t[n], 0) + 1)

\* Mutant: the count of an appended event is not reset, so that each of its
\* occurrences is appended.
RECURSIVE frequency_prefix_keeping_repeats(_, _)
frequency_prefix_keeping_repeats(t, n) ==
    IF n = 0 THEN <<>>
    ELSE Append(frequency_prefix_keeping_repeats(t, n - 1),
                WithCount(t[n], event_to_count(t, Len(t))[t[n]]))

\* The second loop of frequency_transform over the first n elements: an
\* event is appended with its count where it is first met (its count is
\* reset to 0 there).
RECURSIVE frequency_prefix(_, _)
frequency_prefix(t, n) ==
    IF n = 0 THEN <<>>
    ELSE LET collapsed == frequency_prefix(t, n - 1)
             met == \E i \in 1..(n - 1) : t[i] = t[n]
             count == event_to_count(t, Len(t))[t[n]]
         IN  IF ~met /\ count > 0
             THEN Append(collapsed, WithCount(t[n], count))
             ELSE collapsed

\* Lines 95-98: ValueError if an event holds a parenthesis.
frequency_transform_raises(t) == \E i \in 1..Len(t) : HasParenthesis(t[i])

frequency_transform(t) ==
    IF frequency_transform_raises(t) THEN ValueError
    ELSE frequency_prefix(t, Len(t))

TransformNames == {"unique", "exposure", "first", "frequency"}

transform_name_to_function(name, t) ==
    CASE name = "unique" -> unique_transform(t)
      [] name = "exposure" -> exposure_transform(t)
      [] name = "first" -> first_transform(t)
      [] name = "frequency" -> frequency_transform(t)

transform_raises(name, t) == name = "frequency" /\ frequency_transform_raises(t)

\* tuple_path.Path.__init__
Path(path_tuple, total_conversions, total_non_conversions) ==
    [path_tuple |-> path_tuple,
     total_conversions |-> total_conversions,
     total_non_conversions |-> total_non_conversions,
     event_to_attribution |-> EmptyDict]

Path_get_conversion_probability(path) ==
    LET path_instances == path.total_conversions + path.total_non_conversions
    IN  IF path_instances = 0 THEN Zero
        ELSE Rat(path.total_conversions, path_instances)

Alphabet ==
    <<"a", "b", "c", "d", "e", "f", "g", "h", "i", "j", "k", "l", "m",
      "n", "o", "p", "q", "r", "s", "t", "u", "v", "w", "x", "y", "z">>

\* The k-th string the generator yields, k >= 1: the 26 letters, then the
\* 26 * 26 strings of two letters in the order of itertools.product.
create_channel_mapping_iterator(k) ==
    IF k <= Len(Alphabet) THEN Name(Alphabet[k])
    ELSE Name(Alphabet[((k - Len(Alphabet) - 1) \div Len(Alphabet)) + 1]
              \o Alphabet[((k - Len(Alphabet) - 1) % Len(Alphabet)) + 1])

\* Mutant: a fresh channel takes the next token but the generator does not
\* advance.
RECURSIVE encode_channels_reusing_token(_, _, _, _)
encode_channels_reusing_token(channels, n, encoding, iterator) ==
    IF n = 0
    THEN [channel_to_encoding |-> encoding, iterator |-> iterator,
          encoded_channels |-> <<>>]
    ELSE LET before == encode_channels_reusing_token(channels, n - 1,
                                                     encoding, iterator)
             channel == channels[n]
             fresh == channel \notin DOMAIN before.channel_to_encoding
             table == IF fresh
                      THEN Put(before.channel_to_encoding, channel,
                               create_channel_mapping_iterator(before.iterator + 1))
                      ELSE before.channel_to_encoding
         IN  [channel_to_encoding |-> table,
              iterator |-> before.iterator,
              encoded_channels |-> Append(before.encoded_channels, table[channel])]

\* The loop of transform_paths over the first n channels of a row: the
\* encoder table, the tokens yielded so far and the encoded channels.
RECURSIVE encode_channels(_, _, _, _)
encode_channels(channels, n, encoding, iterator) ==
    IF n = 0
    THEN [channel_to_encoding |-> encoding, iterator |-> iterator,
          encoded_channels |-> <<>>]
    ELSE LET before == encode_channels(channels, n - 1, encoding, iterator)
             channel == channels[n]
             fresh == channel \notin DOMAIN before.channel_to_encoding
             table == IF fresh
                      THEN Put(before.channel_to_encoding, channel,
                               create_channel_mapping_iterator(before.iterator + 1))
                      ELSE before.channel_to_encoding
         IN  [channel_to_encoding |-> table,
              iterator |-> IF fresh THEN before.iterator + 1 ELSE before.iterator,
              encoded_channels |-> Append(before.encoded_channels, table[channel])]

\* fractribution_report.get_path_and_event_to_attribution, lines 163-165:
\* {encoding: channel for channel, encoding in channel_to_encoding.items()};
\* of the channels that share an encoding the dict keeps one.
encoding_to_channel(encoding) ==
    [token \in {encoding[channel] : channel \in DOMAIN encoding} |->
        CHOOSE channel \in DOMAIN encoding : encoding[channel] = token]

\* Mutant: the non-conversions of a row that meets an existing path are
\* dropped.
add_path_dropping_non_conversions(store, path) ==
    IF path.path_tuple \notin DOMAIN store
    THEN Put(store, path.path_tuple, path)
    ELSE [store EXCEPT
             ![path.path_tuple].total_conversions = @ + path.total_conversions]

\* Lines 179-184 of transform_paths: the path is stored, or added to the
\* existing path of its tuple.
add_path(store, path) ==
    IF path.path_tuple \notin DOMAIN store
    THEN Put(store, path.path_tuple, path)
    ELSE [store EXCEPT
             ![path.path_tuple].total_conversions = @ + path.total_conversions,
             ![path.path_tuple].total_non_conversions =
                 @ + path.total_non_conversions]

\* _get_counterfactual_marginal_contributions of fractribution_model; the
\* path has an event.
model_get_counterfactual_marginal_contributions(path, store) ==
    IF Len(path.path_tuple) = 1
    THEN <<Path_get_conversion_probability(path)>>
    ELSE [i \in 1..Len(path.path_tuple) |->
             LET counterfactual_tuple == DeleteAt(path.path_tuple, i)
                 counterfactual_conversion_prob ==
                     IF counterfactual_tuple \in DOMAIN store
                     THEN Path_get_conversion_probability(
                              store[counterfactual_tuple])
                     ELSE Zero
             IN  RMax(Zero, RSub(Path_get_conversion_probability(path),
                                 counterfactual_conversion_prob))]

\* The body of the loop of compute_fractional_values for one converted
\* path, with normalize = True.
path_event_to_attribution(path, store) ==
    LET marginal_contributions ==
            model_get_counterfactual_marginal_contributions(path, store)
        sum_marginal_contributions == Sum(marginal_contributions)
        normalized ==
            IF sum_marginal_contributions # Zero
            THEN [i \in DOMAIN marginal_contributions |->
                     RDiv(marginal_contributions[i], sum_marginal_contributions)]
            ELSE marginal_contributions
        with_fallback ==
            IF sum_marginal_contributions = Zero
            THEN [normalized EXCEPT ![Len(normalized)] = One]
            ELSE normalized
    IN  aggregate_by_channel(path.path_tuple, with_fallback, Len(path.path_tuple))

\* normalize_event_names: the names are normalized for the transforms that
\* add a suffix ('recency' is not among the transforms of this package).
normalize_event_names_result(store, path_transform_name) ==
    IF path_transform_name \in {"frequency", "recency"}
    THEN [t \in DOMAIN store |->
             [store[t] EXCEPT !.event_to_attribution =
                 normalize_names(@, DOMAIN @)]]
    ELSE store

\* fractribution_report.UNMATCHED_CHANNEL and the default credit map
\* {UNMATCHED_CHANNEL: 1.0}.
UNMATCHED_CHANNEL == Name("Unmatched Channel")
default_event_to_attribution == [channel \in {UNMATCHED_CHANNEL} |-> One]

\* Path.get_path_string for one encoded event, encoding_to_event not empty:
\* the text before the parenthesis is decoded and the text from the
\* parenthesis on is appended (find('(') > 0); an event without parenthesis
\* is decoded whole.
decoded_event(encoded_event, encoding_to_event) ==
    IF encoded_event.suffix # "" /\ encoded_event.base # ""
    THEN [base |-> encoding_to_event[Name(encoded_event.base)].base,
          suffix |-> encoding_to_event[Name(encoded_event.base)].suffix
                     \o encoded_event.suffix]
    ELSE encoding_to_event[encoded_event]

\* Path.get_path_string(encoding_to_event), encoding_to_event not empty.
Path_get_path_string(path, encoding_to_event) ==
    [i \in 1..Len(path.path_tuple) |->
        decoded_event(path.path_tuple[i], encoding_to_event)]

\* {encoding_to_channel[event]: attribution for (event, attribution) in
\*  path.event_to_attribution.items()}; of the events decoded to one channel
\* the dict keeps one.
decoded_event_to_attribution(event_to_attribution, decoding) ==
    [channel \in {decoding[event] : event \in DOMAIN event_to_attribution} |->
        event_to_attribution[CHOOSE event \in DOMAIN event_to_attribution :
                                 decoding[event] = channel]]

Returned(path_string, event_to_attribution) ==
    [outcome |-> "returned", path_string |-> path_string,
     event_to_attribution |-> event_to_attribution]
KeyError == [outcome |-> "KeyError"]

\* Mutant: the path found is decoded without a look at its credit map.
path_attribution_unchecked(path, decoding, path_string) ==
    IF \E event \in Range(path.path_tuple) \cup DOMAIN path.event_to_attribution :
           Name(event.base) \notin DOMAIN decoding
    THEN KeyError
    ELSE Returned(Path_get_path_string(path, decoding),
                  decoded_event_to_attribution(path.event_to_attribution,
                                               decoding))

\* Lines 182-189 of get_path_and_event_to_attribution, for the path found
\* in the store: the default for a path without credits, else the decoded
\* path string and credit map (a KeyError for an event that the decoding
\* does not hold).
path_attribution(path, decoding, path_string) ==
    IF path.event_to_attribution = EmptyDict
    THEN Returned(path_string, default_event_to_attribution)
    ELSE IF \/ \E event \in Range(path.path_tuple) :
                   IF event.suffix # "" /\ event.base # ""
                   THEN Name(event.base) \notin DOMAIN decoding
                   ELSE event \notin DOMAIN decoding
            \/ \E event \in DOMAIN path.event_to_attribution :
                   event \notin DOMAIN decoding
         THEN KeyError
         ELSE Returned(Path_get_path_string(path, decoding),
                       decoded_event_to_attribution(path.event_to_attribution,
                                                    decoding))

\* Mutant: a channel that the encoder does not hold is looked up all the
\* same.
get_path_and_event_to_attribution_unguarded(name, store, encoding, path_string) ==
    LET names == Split(path_string)
        encoding_error == \E i \in 1..Len(names) :
                              names[i] \notin DOMAIN encoding
    IN  IF path_string = EmptyStr
        THEN Returned(path_string, default_event_to_attribution)
        ELSE IF encoding_error
        THEN KeyError
        ELSE LET transformed_tuple ==
                     transform_name_to_function(
                         name, [i \in 1..Len(names) |-> encoding[names[i]]])
             IN  IF transformed_tuple \notin DOMAIN store
                 THEN KeyError
                 ELSE path_attribution(store[transformed_tuple],
                                       encoding_to_channel(encoding),
                                       path_string)

\* get_path_and_event_to_attribution; name is the name of path_transform.
get_path_and_event_to_attribution_result(name, store, encoding, path_string) ==
    LET channels == Split(path_string)
        encoding_error == \E i \in 1..Len(channels) :
                              channels[i] \notin DOMAIN encoding
        encoded_channels == [i \in 1..Len(channels) |-> encoding[channels[i]]]
        transformed_tuple == transform_name_to_function(name, encoded_channels)
    IN  IF path_string = EmptyStr
        THEN Returned(path_string, default_event_to_attribution)
        ELSE IF encoding_error
        THEN Returned(path_string, default_event_to_attribution)
        ELSE IF transformed_tuple \notin DOMAIN store
        THEN KeyError
        ELSE path_attribution(store[transformed_tuple],
                              encoding_to_channel(encoding), path_string)

\* Lines 41-43: ValueError when a converted path has no event.
compute_fractional_values_raises(store) ==
    \E t \in DOMAIN store : store[t].total_conversions # 0 /\ t = <<>>

compute_fractional_values_result(store) ==
    IF compute_fractional_values_raises(store) THEN ValueError
    ELSE [t \in DOMAIN store |->
             IF store[t].total_conversions = 0 THEN store[t]
             ELSE [store[t] EXCEPT !.event_to_attribution =
                      path_event_to_attribution(store[t], store)]]

\* One iteration of the loop of compute_fractional_values over
\* path_tuple_to_path.items(), and the loop over the first n keys in the
\* given order of iteration; no converted path is empty.
visit_model_path(store, t) ==
    [store EXCEPT ![t] = compute_fractional_values_result(store)[t]]

RECURSIVE compute_in_order(_, _, _)
compute_in_order(store, order, n) ==
    IF n = 0 THEN store
    ELSE visit_model_path(compute_in_order(store, order, n - 1), order[n])

-----------------------------------------------------------------------------
(* The report rows of fractribution_report.py.                             *)

\* The loop of transform_paths over the first n rows of query_job, the
\* transform being one that does not raise on tokens.
RECURSIVE transform_paths_result(_, _, _)
transform_paths_result(query, n, name) ==
    IF n = 0
    THEN [channel_to_encoding |-> EmptyDict, iterator |-> 0,
          transformed_tuple_to_path |-> EmptyDict]
    ELSE LET before == transform_paths_result(query, n - 1, name)
             row == query[n]
             names == Split(row.path_str)
             encoded == encode_channels(names, Len(names),
                                        before.channel_to_encoding,
                                        before.iterator)
             transformed == transform_name_to_function(
                                name, encoded.encoded_channels)
         IN  [channel_to_encoding |-> encoded.channel_to_encoding,
              iterator |-> encoded.iterator,
              transformed_tuple_to_path |->
                  add_path(before.transformed_tuple_to_path,
                           Path(transformed, row.num_conversions,
                                row.num_non_conversions))]

\* Mutant: the channels are met in the order of the list, and a channel
\* without credit gets no column.
construct_row_skipping_uncredited(report_window_start, report_window_end, path_string, customer_id, endpoint_datetime, channel_list, event_to_attribution) ==
    LET credited == SelectSeq(channel_list,
                              LAMBDA channel : channel \in DOMAIN event_to_attribution)
        values == [i \in 1..Len(credited) |-> event_to_attribution[credited[i]]]
    IN  <<report_window_start, report_window_end, path_string, customer_id,
          endpoint_datetime>> \o values \o <<Sum(values)>>

\* Mutant: a credited channel that the list does not hold is left out of
\* the row without an error.
construct_row_raises_never(channel_list, event_to_attribution) == FALSE

\* construct_report_table_row, lines 115-117: the ValueError for a credited
\* channel that the channel list does not hold.
construct_report_table_row_raises(channel_list, event_to_attribution) ==
    \E channel \in DOMAIN event_to_attribution :
        channel \notin Range(channel_list)

\* construct_report_table_row when it does not raise: the five leading
\* columns, one column per channel of the list and the sum of these.
construct_report_table_row(report_window_start, report_window_end, path_string, customer_id, endpoint_datetime, channel_list, event_to_attribution) ==
    LET values == [i \in 1..Len(channel_list) |->
                      Get(event_to_attribution, channel_list[i], Zero)]
        row_sum == Sum(values)
    IN  <<report_window_start, report_window_end, path_string, customer_id,
          endpoint_datetime>> \o values \o <<row_sum>>

-----------------------------------------------------------------------------
\* insert_rows: the slices rows[i:i + max_batch_size] for i in
\* range(0, len(rows), max_batch_size), each given to client.insert_rows.
insert_rows_batches(row_list, max_batch_size) ==
    [k \in 1..((Len(row_list) + max_batch_size - 1) \div max_batch_size) |->
        SubSeq(row_list, (k - 1) * max_batch_size + 1,
               IF k * max_batch_size < Len(row_list)
               THEN k * max_batch_size ELSE Len(row_list))]

\* insert_rows when client.insert_rows reports errors for its call number
\* failing_call (0: for none): the calls made, the last of which is the one
\* with errors, after which RuntimeError is raised.
insert_rows(row_list, max_batch_size, failing_call) ==
    LET batches == insert_rows_batches(row_list, max_batch_size)
        made == IF failing_call = 0 THEN Len(batches) ELSE failing_call
    IN  [k \in 1..made |-> [rows |-> batches[k], errors |-> k = failing_call]]

-----------------------------------------------------------------------------
(* The channel rollup of class Fractribution, src/py/fractribution.py.     *)

\* UNMATCHED_CHANNEL of src/py/fractribution.py, written with an underscore.
Unmatched_Channel == Name("Unmatched_Channel")

\* default_attribution = {UNMATCHED_CHANNEL: 1.0}
default_attribution == Put(EmptyDict, Unmatched_Channel, One)

\* for channel, attribution in channel_to_attribution.items(): the overall
\* map after the given channels of one path summary were added.
RECURSIVE add_channel_attribution(_, _, _, _)
add_channel_attribution(overall, channel_to_attribution, channels, conversions) ==
    IF channels = {} THEN overall
    ELSE LET channel == CHOOSE channel \in channels : TRUE
             before == add_channel_attribution(
                           overall, channel_to_attribution,
                           channels \ {channel}, conversions)
         IN  Put(before, channel,
                 RAdd(Get(before, channel, Zero),
                      RMul(channel_to_attribution[channel],
                           RInt(conversions))))

\* Mutant: a path summary with an empty credit map is passed over.
RECURSIVE get_channel_to_attribution_without_default(_, _)
get_channel_to_attribution_without_default(store, path_tuples) ==
    IF path_tuples = {} THEN EmptyDict
    ELSE LET path_tuple == CHOOSE path_tuple \in path_tuples : TRUE
             path_summary == store[path_tuple]
             channel_to_attribution == path_summary.channel_to_attribution
         IN  add_channel_attribution(
                 get_channel_to_attribution_without_default(
                     store, path_tuples \ {path_tuple}),
                 channel_to_attribution, DOMAIN channel_to_attribution,
                 path_summary.conversions)

\* _get_channel_to_attribution: the loop over the given path summaries of
\* the store.
RECURSIVE get_channel_to_attribution(_, _)
get_channel_to_attribution(store, path_tuples) ==
    IF path_tuples = {} THEN EmptyDict
    ELSE LET path_tuple == CHOOSE path_tuple \in path_tuples : TRUE
             path_summary == store[path_tuple]
             channel_to_attribution ==
                 IF path_summary.channel_to_attribution = EmptyDict
                 THEN default_attribution
                 ELSE path_summary.channel_to_attribution
         IN  add_channel_attribution(
                 get_channel_to_attribution(store,
                                            path_tuples \ {path_tuple}),
                 channel_to_attribution, DOMAIN channel_to_attribution,
                 path_summary.conversions)

-----------------------------------------------------------------------------
(* The integer parameters of src/py/main.py.                               *)

\* Values of an input parameter: None, an int (a flag defined with
\* DEFINE_integer) or a string of characters.
ParamNone == [type |-> "NoneType"]
IntValue(n) == [type |-> "int", int |-> n]
StrValue(text) == [type |-> "str", str |-> text]

\* An optional bound: None is <<>>, the bound n is <<n>>.
NoBound == <<>>
Bound(n) == <<n>>

\* `not value`: None, the int 0 and the empty string are false.
Falsy(value) ==
    \/ value.type = "NoneType"
    \/ value.type = "int" /\ value.int = 0
    \/ value.type = "str" /\ value.str = <<>>

\* `if bound`: None and the bound 0 are false.
BoundTruthy(bound) == bound # NoBound /\ bound[1] # 0

\* int(text) for a text over the characters '-', digits and letters: an
\* optional sign and at least one digit, read in base 10.
Digits == <<"0", "1", "2", "3", "4", "5", "6", "7", "8", "9">>
IsDigit(char) == \E d \in 1..Len(Digits) : Digits[d] = char
DigitValue(char) == (CHOOSE d \in 1..Len(Digits) : Digits[d] = char) - 1

RECURSIVE digits_value(_, _)
digits_value(text, n) ==
    IF n = 0 THEN 0 ELSE 10 * digits_value(text, n - 1) + DigitValue(text[n])

int_raises(value) ==
    /\ value.type = "str"
    /\ LET text == value.str
           unsigned == IF text # <<>> /\ text[1] = "-" THEN Tail(text)
                       ELSE text
       IN  unsigned = <<>> \/ \E i \in 1..Len(unsigned) : ~IsDigit(unsigned[i])

int(value) ==
    IF value.type = "int" THEN value.int
    ELSE IF value.str[1] = "-"
         THEN 0 - digits_value(Tail(value.str), Len(value.str) - 1)
         ELSE digits_value(value.str, Len(value.str))

\* The outcomes of parse_int_param.
IntReturned(int_value) == [outcome |-> "int", int |-> int_value]
ValueErrorOf(message) == [outcome |-> "ValueError", message |-> message]

\* _get_param_or_die raises for a value that is false.
get_param_or_die_raises(input_params, param) ==
    Falsy(Get(input_params, param, ParamNone))

parse_int_param(input_params, param, lower_bound, upper_bound) ==
    LET value == Get(input_params, param, ParamNone)
    IN  IF get_param_or_die_raises(input_params, param)
        THEN ValueErrorOf("Missing parameter")
        ELSE IF int_raises(value) THEN ValueErrorOf("must be an int")
        ELSE IF BoundTruthy(lower_bound) /\ int(value) < lower_bound[1]
        THEN ValueErrorOf("must be at least")
        ELSE IF BoundTruthy(upper_bound) /\ int(value) > upper_bound[1]
        THEN ValueErrorOf("must be at most")
        ELSE IntReturned(int(value))

-----------------------------------------------------------------------------
(* Inputs.                                                                 *)

A == Name("A")
B == Name("B")
X == Name("X")
Y == Name("Y")
Z == Name("Z")
W == Name("W")
C == Name("C")
D == Name("D")

Row(path_str, conversions, non_conversions, revenue) ==
    [path_str |-> path_str, conversions |-> conversions,
     non_conversions |-> non_conversions, revenue |-> revenue]

PathStrings(names, lengths) == UNION {[1..n -> names] : n \in lengths}

\* Rows of the path-summary query: the paths over two channels that a path
\* of two channels and its counterfactuals need, each row counting at most
\* one converting and one non-converting customer.
QueryPaths == {<<>>, <<A>>, <<B>>, <<A, B>>, <<A, A>>}
QueryRows ==
    {Row(p, c, n, 0) : p \in QueryPaths, c \in {0, 1}, n \in {0, 1}}

\* Rows (path_str, num_conversions, num_non_conversions) given to
\* transform_paths, over the same paths.
SummaryRow(path_str, num_conversions, num_non_conversions) ==
    [path_str |-> path_str, num_conversions |-> num_conversions,
     num_non_conversions |-> num_non_conversions]

SummaryRows ==
    {SummaryRow(p, c, n) : p \in QueryPaths, c \in {0, 1}, n \in {0, 1}}

\* Rows of the scenario of the counterfactual model: the three paths and
\* the three pairs of counts of the scenario, in any combination.
ScenarioRows ==
    {Row(p, cn[1], cn[2], 0) :
        p \in {<<A, B>>, <<A>>, <<B>>},
        cn \in {<<10, 5>>, <<4, 1>>, <<6, 2>>}}

\* Rows of the single-path specification: one path over four channels.
PathRows ==
    {Row(p, c, 1 - c, 0) : p \in PathStrings({X, Y, Z, W}, 0..MaxPathLen),
                           c \in {0, 1}}

-----------------------------------------------------------------------------
(* Actions of the Fractribution pipeline (src/py/main.py, run_fractribution:*)
(* the constructor folds query_job, then the model runs).                  *)

init_row(row) ==
    /\ pc = "init"
    /\ BagCardinality(query_job) < MaxRecords
    /\ path_tuple_to_summary' =
           Fractribution_init_row(path_tuple_to_summary, row)
    /\ query_job' = query_job (+) SetToBag({row})
    /\ UNCHANGED <<pc, last_run, models_run, modelVars,
                   auxVars>>

\* query_job is exhausted: the constructor returns.
init_return ==
    /\ pc = "init"
    /\ pc' = "ready"
    /\ UNCHANGED <<query_job, classVars, modelVars, auxVars>>

run_fractribution(attribution_model) ==
    /\ pc = "ready"
    /\ models_run < MaxRuns
    /\ path_tuple_to_summary' =
           ATTRIBUTION_MODELS(attribution_model, path_tuple_to_summary)
    /\ last_run' = attribution_model
    /\ models_run' = models_run + 1
    /\ UNCHANGED <<pc, query_job, modelVars,
                   auxVars>>

normalize_channel_to_attribution_names ==
    /\ pc = "ready"
    /\ path_tuple_to_summary' =
           normalize_channel_to_attribution_names_result(path_tuple_to_summary)
    /\ last_run' = "normalize"
    /\ UNCHANGED <<pc, query_job, models_run, modelVars, auxVars>>

ClassIdle ==
    /\ path_tuple_to_summary = EmptyDict
    /\ last_run = "none"
    /\ models_run = 0

TransformIdle ==
    /\ transform_input = <<>>
    /\ transform_output = <<>>
    /\ transform_calls = <<>>

\* No customer was joined yet.
NotJoined == [outcome |-> "none"]

ReportIdle ==
    /\ customer_path_string = EmptyStr
    /\ path_and_event_to_attribution = NotJoined

\* No join runs.
JoinIdle ==
    /\ report_channels = <<>>
    /\ report_customers = <<>>
    /\ report_rows = <<>>
    /\ report_inserts = <<>>
    /\ report_raised = "none"

\* No rollup was computed and parse_int_param was not called.
NoCall == [outcome |-> "none"]

ResultIdle ==
    /\ overall_channel_to_attribution = EmptyDict
    /\ parse_int = NoCall

AuxIdle == TransformIdle /\ ReportIdle /\ JoinIdle /\ ResultIdle

ModelIdle ==
    /\ path_transform = "none"
    /\ channel_to_encoding = EmptyDict
    /\ channel_mapping_iterator = 0
    /\ transformed_tuple_to_path = EmptyDict

Init ==
    /\ pc = "init"
    /\ query_job = EmptyBag
    /\ path_tuple_to_summary = EmptyDict
    /\ last_run = "none"
    /\ models_run = 0
    /\ ModelIdle
    /\ AuxIdle

Next ==
    \/ \E row \in QueryRows : init_row(row)
    \/ init_return
    \/ \E attribution_model \in AttributionModels :
           run_fractribution(attribution_model)
    \/ normalize_channel_to_attribution_names

Spec == Init /\ [][Next]_vars

\* The store after the constructor consumed a single row, then the models.
InitPath ==
    \E row \in PathRows :
        /\ pc = "ready"
        /\ query_job = SetToBag({row})
        /\ path_tuple_to_summary = Fractribution_init_row(EmptyDict, row)
        /\ last_run = "none"
        /\ models_run = 0
        /\ ModelIdle
        /\ AuxIdle

NextPath ==
    \/ \E attribution_model \in AttributionModels :
           run_fractribution(attribution_model)
    \/ normalize_channel_to_attribution_names

SpecPath == InitPath /\ [][NextPath]_vars

NextScenario ==
    \/ \E row \in ScenarioRows : init_row(row)
    \/ init_return
    \/ \E attribution_model \in AttributionModels :
           run_fractribution(attribution_model)
    \/ normalize_channel_to_attribution_names

SpecScenario == Init /\ [][NextScenario]_vars

-----------------------------------------------------------------------------
\* Tuples given to the transforms: every tuple over three tokens up to
\* MaxTupleLen, and the example of the docstrings of tuple_transforms.py.
ExampleTuple == <<D, A, B, B, C, D, C, C>>
TransformTuples == PathStrings({A, B, C}, 0..MaxTupleLen) \cup {ExampleTuple}

\* A call of one of the functions of tuple_transforms.py: the first call on
\* the input tuple, a later call on the tuple the last call returned.
call_transform(name) ==
    /\ pc = "transforms"
    /\ Len(transform_calls) < MaxCalls
    /\ LET t == IF transform_calls = <<>> THEN transform_input
                ELSE transform_output
       IN  IF transform_raises(name, t)
           THEN /\ pc' = "raised"
                /\ UNCHANGED transform_output
           ELSE /\ pc' = pc
                /\ transform_output' = transform_name_to_function(name, t)
    /\ transform_calls' = Append(transform_calls, name)
    /\ UNCHANGED <<query_job, classVars, modelVars, transform_input,
                   reportVars, joinVars, resultVars>>

InitTransform ==
    /\ pc = "transforms"
    /\ query_job = EmptyBag
    /\ ClassIdle
    /\ ModelIdle
    /\ transform_input \in TransformTuples
    /\ transform_output = <<>>
    /\ transform_calls = <<>>
    /\ ReportIdle
    /\ ResultIdle
    /\ JoinIdle

NextTransform == \E name \in TransformNames : call_transform(name)

SpecTransform == InitTransform /\ [][NextTransform]_vars

\* Rows that carry revenue: the converting customers of three paths.
RevenueRows ==
    {Row(p, 1, n, r) : p \in {<<>>, <<A>>, <<A, B>>}, n \in {0, 1},
                       r \in {0, 1, 2}}

\* The constructor over rows with revenue.
NextRevenue ==
    \/ \E row \in RevenueRows : init_row(row)
    \/ init_return

SpecRevenue == Init /\ [][NextRevenue]_vars

-----------------------------------------------------------------------------
(* Actions of the fractribution_model pipeline                             *)
(* (src/py/fractribution_model/main.py, execute: transform_paths, then     *)
(* compute_fractional_values).                                             *)

\* One iteration of the loop of transform_paths over query_job.
transform_paths_row(row) ==
    /\ pc = "transform"
    /\ BagCardinality(query_job) < MaxRecords
    /\ LET channels == Split(row.path_str)
            encoded == encode_channels(channels, Len(channels),
                                       channel_to_encoding,
                                       channel_mapping_iterator)
            transformed == transform_name_to_function(
                               path_transform, encoded.encoded_channels)
       IN  /\ channel_to_encoding' = encoded.channel_to_encoding
           /\ channel_mapping_iterator' = encoded.iterator
           /\ IF transform_raises(path_transform, encoded.encoded_channels)
              THEN /\ pc' = "failed"
                   /\ UNCHANGED transformed_tuple_to_path
              ELSE /\ pc' = pc
                   /\ transformed_tuple_to_path' =
                          add_path(transformed_tuple_to_path,
                                   Path(transformed, row.num_conversions,
                                        row.num_non_conversions))
    /\ query_job' = query_job (+) SetToBag({row})
    /\ UNCHANGED <<path_transform, classVars,
                   auxVars>>

\* query_job is exhausted: transform_paths returns.
transform_paths_return ==
    /\ pc = "transform"
    /\ pc' = "transformed"
    /\ UNCHANGED <<query_job, classVars, modelVars, auxVars>>

compute_fractional_values ==
    /\ pc = "transformed"
    /\ IF compute_fractional_values_raises(transformed_tuple_to_path)
       THEN /\ pc' = "failed"
            /\ UNCHANGED transformed_tuple_to_path
       ELSE /\ pc' = "attributed"
            /\ transformed_tuple_to_path' =
                   compute_fractional_values_result(transformed_tuple_to_path)
    /\ UNCHANGED <<query_job, classVars, path_transform, channel_to_encoding,
                   channel_mapping_iterator,
                   auxVars>>

\* execute calls it once, after compute_fractional_values; a further call
\* is a call on its own result.
normalize_event_names ==
    /\ pc \in {"attributed", "normalized"}
    /\ transformed_tuple_to_path' =
           normalize_event_names_result(transformed_tuple_to_path,
                                        path_transform)
    /\ pc' = "normalized"
    /\ UNCHANGED <<query_job, classVars, path_transform, channel_to_encoding,
                   channel_mapping_iterator, auxVars>>

InitModel ==
    /\ pc = "transform"
    /\ query_job = EmptyBag
    /\ ClassIdle
    /\ path_transform \in TransformNames
    /\ channel_to_encoding = EmptyDict
    /\ channel_mapping_iterator = 0
    /\ transformed_tuple_to_path = EmptyDict
    /\ AuxIdle

NextModel ==
    \/ \E row \in SummaryRows : transform_paths_row(row)
    \/ transform_paths_return
    \/ compute_fractional_values
    \/ normalize_event_names

SpecModel == InitModel /\ [][NextModel]_vars

\* One iteration of the loop of join_customers_with_attribution_paths: the
\* join of the customer with the given path string. execute joins the
\* customers after normalize_event_names; a KeyError ends the run.
get_path_and_event_to_attribution(path_string) ==
    /\ pc = "normalized"
    /\ customer_path_string' = path_string
    /\ path_and_event_to_attribution' =
           get_path_and_event_to_attribution_result(
               path_transform, transformed_tuple_to_path, channel_to_encoding,
               path_string)
    /\ pc' = IF path_and_event_to_attribution' = KeyError THEN "failed" ELSE pc
    /\ UNCHANGED <<query_job, classVars, modelVars, resultVars,
                   transformVars, joinVars>>

\* Rows given to transform_paths ahead of the report, and the path strings
\* of the customers joined: those of the rows, a path no row has (B > A) and
\* a path with a channel no row has (A > C).
ReportRows == {SummaryRow(p, c, 1 - c) : p \in QueryPaths, c \in {0, 1}}
CustomerPaths == QueryPaths \cup {<<B, A>>, <<A, C>>}

NextReport ==
    \/ \E row \in ReportRows : transform_paths_row(row)
    \/ transform_paths_return
    \/ compute_fractional_values
    \/ normalize_event_names
    \/ \E path_string \in CustomerPaths :
           get_path_and_event_to_attribution(path_string)

SpecReport == InitModel /\ [][NextReport]_vars

\* The window of the report, and a customer record
\* (path_string, customer_id, endpoint_datetime).
report_window_start == "2016-08-01"
report_window_end == "2016-08-31"
Customer(path_string, customer_id) ==
    [path_string |-> path_string, customer_id |-> customer_id,
     endpoint_datetime |-> 0]

\* The body of the loop of join_customers_with_attribution_paths for one
\* customer: the row of the customer, or the exception that the join or the
\* construction of the row raises.
customer_row(customer) ==
    LET joined == get_path_and_event_to_attribution_result(
                      path_transform, transformed_tuple_to_path,
                      channel_to_encoding, customer.path_string)
    IN  IF joined = KeyError THEN [outcome |-> "KeyError"]
        ELSE IF construct_report_table_row_raises(
                    report_channels, joined.event_to_attribution)
        THEN [outcome |-> "ValueError"]
        ELSE [outcome |-> "row",
              row |-> construct_report_table_row(
                          report_window_start, report_window_end,
                          joined.path_string, customer.customer_id,
                          customer.endpoint_datetime, report_channels,
                          joined.event_to_attribution)]

\* One iteration of the loop of join_customers_with_attribution_paths.
join_customer(path_string) ==
    /\ pc = "joining"
    /\ Len(report_customers) < MaxCustomers
    /\ LET customer == Customer(path_string, Len(report_customers) + 1)
           result == customer_row(customer)
       IN  /\ report_customers' = Append(report_customers, customer)
           /\ customer_path_string' = path_string
           /\ path_and_event_to_attribution' =
                  get_path_and_event_to_attribution_result(
                      path_transform, transformed_tuple_to_path,
                      channel_to_encoding, path_string)
           /\ IF result.outcome = "row"
              THEN /\ report_rows' = Append(report_rows, result.row)
                   /\ UNCHANGED <<pc, report_raised>>
              ELSE /\ pc' = "failed"
                   /\ report_raised' = result.outcome
                   /\ UNCHANGED report_rows
    /\ UNCHANGED <<query_job, classVars, modelVars, resultVars,
                   transformVars,
                   report_channels, report_inserts>>

\* The customers are exhausted: join_customers_with_attribution_paths
\* returns rows.
join_customers_return ==
    /\ pc = "joining"
    /\ pc' = "joined"
    /\ UNCHANGED <<query_job, classVars, modelVars, auxVars>>

\* The path summaries ahead of a join, as lists of rows: a store with a
\* path without conversions; a store that lacks the path B > A of two known
\* channels; a store with the row of the empty path string.
JoinQueries ==
    {<<SummaryRow(<<A, B>>, 1, 0), SummaryRow(<<A>>, 1, 1),
       SummaryRow(<<B>>, 0, 1)>>,
     <<SummaryRow(<<A, A>>, 1, 0), SummaryRow(<<A, B>>, 1, 1),
       SummaryRow(<<A, A>>, 1, 1)>>,
     <<SummaryRow(EmptyStr, 1, 0), SummaryRow(<<A>>, 1, 0)>>}

\* Channel lists of the report schema: with every channel, in another
\* order, with the empty name that the row of the empty path string is
\* split into, without B, without Unmatched Channel, and with A twice.
ChannelLists ==
    {<<A, B, UNMATCHED_CHANNEL>>, <<UNMATCHED_CHANNEL, B, A>>,
     <<EmptyName, A, B, UNMATCHED_CHANNEL>>,
     <<A, UNMATCHED_CHANNEL>>, <<A, B>>, <<A, A, B, UNMATCHED_CHANNEL>>}

\* Path strings of the customers of a join.
JoinCustomerPaths == {EmptyStr, <<A>>, <<A, B>>, <<B, A>>, <<A, C>>}

RECURSIVE SeqToBag(_, _)
SeqToBag(s, n) ==
    IF n = 0 THEN EmptyBag ELSE SeqToBag(s, n - 1) (+) SetToBag({s[n]})

\* The state when execute starts the join: transform_paths,
\* compute_fractional_values and normalize_event_names have run on a query.
StoreNormalized(query, name) ==
    LET built == transform_paths_result(query, Len(query), name)
    IN  /\ query_job = SeqToBag(query, Len(query))
        /\ path_transform = name
        /\ channel_to_encoding = built.channel_to_encoding
        /\ channel_mapping_iterator = built.iterator
        /\ transformed_tuple_to_path =
               normalize_event_names_result(
                   compute_fractional_values_result(
                       built.transformed_tuple_to_path),
                   name)

InitJoin ==
    /\ pc = "joining"
    /\ ClassIdle
    /\ TransformIdle
    /\ ReportIdle
    /\ ResultIdle
    /\ \E query \in JoinQueries, name \in TransformNames :
           StoreNormalized(query, name)
    /\ report_channels \in ChannelLists
    /\ report_customers = <<>>
    /\ report_rows = <<>>
    /\ report_inserts = <<>>
    /\ report_raised = "none"

NextJoin ==
    \/ \E path_string \in JoinCustomerPaths : join_customer(path_string)
    \/ join_customers_return

SpecJoin == InitJoin /\ [][NextJoin]_vars

\* One iteration of the loop of
\* join_customers_with_attribution_paths_and_upload: the row of the
\* customer is appended to rows, and rows are inserted and emptied when
\* they fill a batch.
upload_customer(path_string, failing_call) ==
    /\ pc = "uploading"
    /\ Len(report_customers) < MaxUploads
    /\ LET customer == Customer(path_string, Len(report_customers) + 1)
           result == customer_row(customer)
           pending == Append(report_rows, result.row)
           full == Len(pending) >= MAX_ROW_BATCH_SIZE
           calls == insert_rows(pending, MAX_ROW_BATCH_SIZE, failing_call)
       IN  /\ report_customers' = Append(report_customers, customer)
           /\ customer_path_string' = path_string
           /\ path_and_event_to_attribution' =
                  get_path_and_event_to_attribution_result(
                      path_transform, transformed_tuple_to_path,
                      channel_to_encoding, path_string)
           /\ IF result.outcome # "row"
              THEN /\ failing_call = 0
                   /\ pc' = "failed"
                   /\ report_raised' = result.outcome
                   /\ UNCHANGED <<report_rows, report_inserts>>
              ELSE IF ~full
              THEN /\ failing_call = 0
                   /\ report_rows' = pending
                   /\ UNCHANGED <<pc, report_raised, report_inserts>>
              ELSE /\ failing_call <=
                          Len(insert_rows_batches(pending, MAX_ROW_BATCH_SIZE))
                   /\ report_inserts' = report_inserts \o calls
                   /\ IF failing_call # 0
                      THEN /\ pc' = "failed"
                           /\ report_raised' = "RuntimeError"
                           /\ report_rows' = pending
                      ELSE /\ report_rows' = <<>>
                           /\ UNCHANGED <<pc, report_raised>>
    /\ UNCHANGED <<query_job, classVars, modelVars, resultVars,
                   transformVars,
                   report_channels>>

\* Mutant: the function returns without the insert of the rows left.
upload_return_without_insert(failing_call) ==
    /\ pc = "uploading"
    /\ failing_call = 0
    /\ pc' = "uploaded"
    /\ report_rows' = <<>>
    /\ UNCHANGED <<query_job, classVars, modelVars, resultVars,
                   transformVars, reportVars,
                   report_channels, report_customers, report_inserts,
                   report_raised>>

\* The customers are exhausted: the rows left are inserted and
\* join_customers_with_attribution_paths_and_upload returns.
upload_return(failing_call) ==
    /\ pc = "uploading"
    /\ failing_call <= Len(insert_rows_batches(report_rows, MAX_ROW_BATCH_SIZE))
    /\ report_inserts' =
           report_inserts \o insert_rows(report_rows, MAX_ROW_BATCH_SIZE,
                                         failing_call)
    /\ IF failing_call # 0
       THEN /\ pc' = "failed"
            /\ report_raised' = "RuntimeError"
            /\ UNCHANGED report_rows
       ELSE /\ pc' = "uploaded"
            /\ report_rows' = <<>>
            /\ UNCHANGED report_raised
    /\ UNCHANGED <<query_job, classVars, modelVars, resultVars,
                   transformVars, reportVars,
                   report_channels, report_customers>>

\* Channel lists and path strings of the customers of an upload.
UploadChannelLists == {<<A, B, UNMATCHED_CHANNEL>>, <<A, UNMATCHED_CHANNEL>>}
UploadCustomerPaths == {<<A>>, <<A, B>>, <<B, A>>}

InitUpload ==
    /\ pc = "uploading"
    /\ ClassIdle
    /\ TransformIdle
    /\ ReportIdle
    /\ ResultIdle
    /\ \E query \in JoinQueries, name \in TransformNames :
           StoreNormalized(query, name)
    /\ report_channels \in UploadChannelLists
    /\ report_customers = <<>>
    /\ report_rows = <<>>
    /\ report_inserts = <<>>
    /\ report_raised = "none"

NextUpload ==
    \/ \E path_string \in UploadCustomerPaths, failing_call \in 0..1 :
           upload_customer(path_string, failing_call)
    \/ \E failing_call \in 0..1 : upload_return(failing_call)

SpecUpload == InitUpload /\ [][NextUpload]_vars

\* Rows whose raw channel names hold a parenthesis: the raw name A(1), alone
\* and next to the raw name A.
AParen == [base |-> "A", suffix |-> "(1)"]
ParenthesisRows ==
    {SummaryRow(p, c, n) : p \in {<<A>>, <<AParen>>, <<A, AParen>>, <<AParen, A>>},
                           c \in {0, 1}, n \in {0, 1}}

NextParenthesis ==
    \/ \E row \in ParenthesisRows : transform_paths_row(row)
    \/ transform_paths_return
    \/ compute_fractional_values
    \/ normalize_event_names

SpecParenthesis == InitModel /\ [][NextParenthesis]_vars

\* Rows of the path-summary query whose channel names carry a count: the
\* raw names A(1) and A(2) next to A and B.
A2 == [base |-> "A", suffix |-> "(2)"]
NormalizeRows ==
    {Row(p, c, 1 - c, 0) : p \in {<<A>>, <<AParen, A2>>, <<A, AParen>>,
                                  <<AParen, B>>},
                           c \in {0, 1}}

\* Either pipeline up to the normalization of the names of its credits.
NextNormalize ==
    \/ \E row \in NormalizeRows : init_row(row)
    \/ init_return
    \/ \E attribution_model \in AttributionModels :
           run_fractribution(attribution_model)
    \/ normalize_channel_to_attribution_names
    \/ \E row \in ParenthesisRows : transform_paths_row(row)
    \/ transform_paths_return
    \/ compute_fractional_values
    \/ normalize_event_names

SpecNormalize == (Init \/ InitModel) /\ [][NextNormalize]_vars

\* Rows with revenue, with and without conversions, one of them over a raw
\* name with a parenthesis.
FrameRows ==
    {Row(p, c, 1 - c, r) : p \in {<<A>>, <<AParen, B>>, <<A, B>>},
                           c \in {0, 1}, r \in {0, 1}}

\* What runs on a built store: the models and the normalizer of the class
\* Fractribution, and the join of the report.
NextFrame ==
    \/ \E row \in FrameRows : init_row(row)
    \/ init_return
    \/ \E attribution_model \in AttributionModels :
           run_fractribution(attribution_model)
    \/ normalize_channel_to_attribution_names
    \/ \E path_string \in JoinCustomerPaths : join_customer(path_string)
    \/ join_customers_return

SpecFrame == (Init \/ InitJoin) /\ [][NextFrame]_vars

\* upload_report_table: the rollup of the credits by channel, computed once
\* the models and the normalizer have run.
upload_report_table ==
    /\ pc = "ready"
    /\ overall_channel_to_attribution' =
           get_channel_to_attribution(path_tuple_to_summary,
                                      DOMAIN path_tuple_to_summary)
    /\ pc' = "reported"
    /\ UNCHANGED <<query_job, classVars, modelVars, transformVars, reportVars,
                   joinVars, parse_int>>

\* Rows of the rollup: the empty path, a path of one channel and a path of
\* two channels, with and without conversions.
RollupRows ==
    {Row(p, c, n, 0) : p \in {<<>>, <<A>>, <<A, B>>}, c \in {0, 1},
                       n \in {0, 1}}

NextRollup ==
    \/ \E row \in RollupRows : init_row(row)
    \/ init_return
    \/ \E attribution_model \in AttributionModels :
           run_fractribution(attribution_model)
    \/ normalize_channel_to_attribution_names
    \/ upload_report_table

SpecRollup == Init /\ [][NextRollup]_vars

\* Rows of either pipeline whose order matters to the encoder: two channels
\* alone and in both orders, each row a converting or a non-converting
\* customer.
OrderPaths == {<<A>>, <<B>>, <<A, B>>, <<B, A>>}
OrderRows == {Row(p, c, 1 - c, 0) : p \in OrderPaths, c \in {0, 1}}
OrderSummaryRows == {SummaryRow(p, c, 1 - c) : p \in OrderPaths, c \in {0, 1}}

\* Either pipeline up to its model, the rows folded in every order.
NextOrder ==
    \/ \E row \in OrderRows : init_row(row)
    \/ init_return
    \/ \E attribution_model \in AttributionModels :
           run_fractribution(attribution_model)
    \/ \E row \in OrderSummaryRows : transform_paths_row(row)
    \/ transform_paths_return
    \/ compute_fractional_values

SpecOrder == (Init \/ InitModel) /\ [][NextOrder]_vars

\* The name of an integer parameter, the values it is given and the bounds
\* of a call of parse_int_param.
Param == "conversion_window_end_today_offset_days"
ParamChars == {"-", "0", "1", "x"}
ParamValues ==
    {ParamNone} \cup {IntValue(n) : n \in (0 - MaxParam)..MaxParam}
        \cup {StrValue(text) : text \in PathStrings(ParamChars, 0..MaxParamLen)}
InputParams == {EmptyDict} \cup {Put(EmptyDict, Param, value) : value \in ParamValues}
Bounds == {NoBound} \cup {Bound(n) : n \in 0..(MaxParam - 1)}

\* A call of parse_int_param with its arguments, before it ran.
Called_parse_int(input_params, lower_bound, upper_bound) ==
    [input_params |-> input_params, lower_bound |-> lower_bound,
     upper_bound |-> upper_bound, result |-> NoCall]

call_parse_int_param ==
    /\ pc = "params"
    /\ parse_int' =
           [parse_int EXCEPT !.result =
               parse_int_param(parse_int.input_params, Param,
                               parse_int.lower_bound, parse_int.upper_bound)]
    /\ pc' = IF parse_int'.result.outcome = "int" THEN "parsed" ELSE "rejected"
    /\ UNCHANGED <<query_job, classVars, modelVars, transformVars, reportVars,
                   joinVars, overall_channel_to_attribution>>

InitParams ==
    /\ pc = "params"
    /\ query_job = EmptyBag
    /\ ClassIdle
    /\ ModelIdle
    /\ TransformIdle
    /\ ReportIdle
    /\ JoinIdle
    /\ overall_channel_to_attribution = EmptyDict
    /\ parse_int \in {Called_parse_int(input_params, lower_bound, upper_bound) :
                         input_params \in InputParams, lower_bound \in Bounds,
                         upper_bound \in Bounds}

NextParams == call_parse_int_param

SpecParams == InitParams /\ [][NextParams]_vars

\* The construction of the store of either pipeline.
NextStores ==
    \/ \E row \in QueryRows : init_row(row)
    \/ init_return
    \/ \E row \in SummaryRows : transform_paths_row(row)
    \/ transform_paths_return

SpecStores == (Init \/ InitModel) /\ [][NextStores]_vars

-----------------------------------------------------------------------------
(* Vocabulary of the properties.                                           *)

Credits(path_tuple) == path_tuple_to_summary[path_tuple].channel_to_attribution
Converted(path_tuple) == path_tuple_to_summary[path_tuple].conversions > 0
Positions(path_tuple, channel) ==
    {i \in 1..Len(path_tuple) : path_tuple[i] = channel}

\* The sum of f[i] over the positions i of the set S.
RECURSIVE SumOver(_, _)
SumOver(S, f) ==
    IF S = {} THEN Zero
    ELSE LET i == CHOOSE i \in S : TRUE
         IN  RAdd(f[i], SumOver(S \ {i}, f))

\* P(t): conversions / (conversions + non_conversions) of t in the store,
\* 0 when t is no key of the store or both counts are zero.
P(t) ==
    IF t \in DOMAIN path_tuple_to_summary
    THEN LET c == path_tuple_to_summary[t].conversions
             n == path_tuple_to_summary[t].non_conversions
         IN  IF c + n > 0 THEN Rat(c, c + n) ELSE Zero
    ELSE Zero

\* m_i = max(0, P(path) - P(path with position i deleted)), for each i.
Floored(t) ==
    [i \in 1..Len(t) |->
        LET raw == RSub(P(t), P(DeleteAt(t, i)))
        IN  IF RLess(raw, Zero) THEN Zero ELSE raw]

-----------------------------------------------------------------------------
(* C1: after any of the five attribution models has run, every path with  *)
(* a non-empty tuple and conversions > 0 has credits that are all          *)
(* non-negative and sum to exactly 1.                                      *)
C1_CreditsSumToOne ==
    last_run \in AttributionModels =>
        \A t \in DOMAIN path_tuple_to_summary :
            (t # <<>> /\ Converted(t)) =>
                /\ \A channel \in DOMAIN Credits(t) :
                       ~RLess(Credits(t)[channel], Zero)
                /\ SumValues(Credits(t)) = One

\* The counterfactual model has split the credit of a converted path of two
\* channels into two proper fractions.
C1_Witness ==
    /\ last_run = "shapley"
    /\ \E t \in DOMAIN path_tuple_to_summary :
           /\ Len(t) = 2
           /\ Converted(t)
           /\ \A channel \in DOMAIN Credits(t) :
                  RLess(Zero, Credits(t)[channel]) /\ RLess(Credits(t)[channel], One)
           /\ Cardinality(DOMAIN Credits(t)) = 2

(* C2: under the shapley model, for a converted path of length n > 1      *)
(* whose floored marginal contributions m_i do not all vanish, the credit  *)
(* of each channel c is (sum of m_i over the positions holding c) divided  *)
(* by (sum of all m_i).                                                    *)
C2_ShapleyCredit ==
    last_run = "shapley" =>
        \A t \in DOMAIN path_tuple_to_summary :
            LET m == Floored(t)
                total == SumOver(1..Len(t), m)
            IN  (Len(t) > 1 /\ Converted(t) /\ total # Zero) =>
                    /\ DOMAIN Credits(t) = Range(t)
                    /\ \A c \in Range(t) :
                           Credits(t)[c] = RDiv(SumOver(Positions(t, c), m), total)

\* A converted path of two channels where one raw contribution is negative
\* (so it is floored) and the other is positive.
C2_Witness ==
    /\ last_run = "shapley"
    /\ \E t \in DOMAIN path_tuple_to_summary :
           /\ Len(t) = 2
           /\ t[1] # t[2]
           /\ Converted(t)
           /\ \E i \in 1..2 : RLess(P(t), P(DeleteAt(t, i)))
           /\ SumOver(1..2, Floored(t)) # Zero

\* The store of the scenario: (A,B) 10/5, (B) 4/1, (A) 6/2.
ScenarioStore ==
    /\ DOMAIN path_tuple_to_summary = {<<A, B>>, <<B>>, <<A>>}
    /\ path_tuple_to_summary[<<A, B>>].conversions = 10
    /\ path_tuple_to_summary[<<A, B>>].non_conversions = 5
    /\ path_tuple_to_summary[<<B>>].conversions = 4
    /\ path_tuple_to_summary[<<B>>].non_conversions = 1
    /\ path_tuple_to_summary[<<A>>].conversions = 6
    /\ path_tuple_to_summary[<<A>>].non_conversions = 2

(* C3: under the shapley model, when every floored marginal contribution  *)
(* of a converted path is zero, the channel at the last position gets      *)
(* credit 1 and every other channel of the path gets 0; with the store     *)
(* (A,B) 10/5, (B) 4/1, (A) 6/2 the path (A,B) ends with B = 1 and A = 0.  *)
C3_LastTouchFallback ==
    last_run = "shapley" =>
        /\ \A t \in DOMAIN path_tuple_to_summary :
               (/\ Len(t) > 1
                /\ Converted(t)
                /\ \A i \in 1..Len(t) : Floored(t)[i] = Zero) =>
                    /\ DOMAIN Credits(t) = Range(t)
                    /\ Credits(t)[t[Len(t)]] = One
                    /\ \A c \in Range(t) \ {t[Len(t)]} : Credits(t)[c] = Zero
        /\ ScenarioStore =>
               /\ DOMAIN Credits(<<A, B>>) = {A, B}
               /\ Credits(<<A, B>>)[B] = One
               /\ Credits(<<A, B>>)[A] = Zero

\* The counterfactual model has run on the store of the scenario, where
\* both contributions of (A,B) are floored to zero.
C3_Witness ==
    /\ last_run = "shapley"
    /\ ScenarioStore
    /\ \A i \in 1..2 : Floored(<<A, B>>)[i] = Zero

(* C4: under the first-touch model every non-empty path has credit 1 on   *)
(* the channel at position 0 and credit 0 on every other distinct channel  *)
(* of the path, also when the first channel occurs again later; under the  *)
(* last-touch model the same holds with the channel at the final position. *)
C4_FirstAndLastTouch ==
    \A t \in DOMAIN path_tuple_to_summary :
        LET credited == IF last_run = "first_touch" THEN t[1] ELSE t[Len(t)]
        IN  (t # <<>> /\ last_run \in {"first_touch", "last_touch"}) =>
                /\ DOMAIN Credits(t) = Range(t)
                /\ Credits(t)[credited] = One
                /\ \A c \in Range(t) \ {credited} : Credits(t)[c] = Zero

\* First touch has run on a path whose first channel occurs again later,
\* after another channel.
C4_Witness ==
    /\ last_run = "first_touch"
    /\ \E t \in DOMAIN path_tuple_to_summary :
           /\ Len(t) >= 3
           /\ t[2] # t[1]
           /\ t[Len(t)] = t[1]
           /\ Credits(t)[t[1]] = One

(* C5: under the linear model a channel that occupies k of the n          *)
(* positions of a non-empty path ends with credit k/n.                     *)
C5_LinearCredit ==
    last_run = "linear" =>
        \A t \in DOMAIN path_tuple_to_summary :
            t # <<>> =>
                /\ DOMAIN Credits(t) = Range(t)
                /\ \A c \in Range(t) :
                       Credits(t)[c] = Rat(Cardinality(Positions(t, c)), Len(t))

\* The linear model has run on the path (X,Y,X): X = 2/3 and Y = 1/3.
C5_Witness ==
    /\ last_run = "linear"
    /\ <<X, Y, X>> \in DOMAIN path_tuple_to_summary
    /\ Credits(<<X, Y, X>>)[X] = <<2, 3>>
    /\ Credits(<<X, Y, X>>)[Y] = <<1, 3>>

\* The weight of position i of a path of n positions.
PositionWeight(n, i) ==
    IF n = 1 THEN One
    ELSE IF n = 2 THEN <<1, 2>>
    ELSE IF i = 1 \/ i = n THEN <<2, 5>>
    ELSE RDiv(<<1, 5>>, RInt(n - 2))

(* C6: under the position-based model the credit of a channel is the sum  *)
(* of the weights of the positions it occupies: 1 for the only position    *)
(* of a 1-element path, 1/2 and 1/2 for a 2-element path and, for n >= 3,  *)
(* 0.4 for the first, 0.4 for the last and 0.2/(n-2) for each interior     *)
(* position.                                                               *)
C6_PositionBasedCredit ==
    last_run = "position_based" =>
        \A t \in DOMAIN path_tuple_to_summary :
            t # <<>> =>
                /\ DOMAIN Credits(t) = Range(t)
                /\ \A c \in Range(t) :
                       Credits(t)[c] =
                           SumOver(Positions(t, c),
                                   [i \in 1..Len(t) |-> PositionWeight(Len(t), i)])

\* The position-based model has run on a path of four positions whose first
\* channel is also its last and one of its interior channels.
C6_Witness ==
    /\ last_run = "position_based"
    /\ \E t \in DOMAIN path_tuple_to_summary :
           /\ Len(t) = 4
           /\ t[1] = t[4]
           /\ t[1] = t[2]
           /\ t[3] # t[1]
           /\ Credits(t)[t[1]] = <<9, 10>>

(* C7 as stated: the position-based model on (X,Y,Z,W) assigns X = 0.5,   *)
(* W = 0.5, Y = 0.1 and Z = 0.1.                                           *)
C7_Original ==
    (last_run = "position_based"
        /\ <<X, Y, Z, W>> \in DOMAIN path_tuple_to_summary) =>
            /\ Credits(<<X, Y, Z, W>>)[X] = <<1, 2>>
            /\ Credits(<<X, Y, Z, W>>)[W] = <<1, 2>>
            /\ Credits(<<X, Y, Z, W>>)[Y] = <<1, 10>>
            /\ Credits(<<X, Y, Z, W>>)[Z] = <<1, 10>>

(* C7 amended: the position-based model on a path (X,Y,Z,W) of four       *)
(* distinct channels assigns X = 0.4, W = 0.4, Y = 0.1 and Z = 0.1.        *)
C7_PositionBasedScenario ==
    (last_run = "position_based"
        /\ <<X, Y, Z, W>> \in DOMAIN path_tuple_to_summary) =>
            /\ DOMAIN Credits(<<X, Y, Z, W>>) = {X, Y, Z, W}
            /\ Credits(<<X, Y, Z, W>>)[X] = <<2, 5>>
            /\ Credits(<<X, Y, Z, W>>)[W] = <<2, 5>>
            /\ Credits(<<X, Y, Z, W>>)[Y] = <<1, 10>>
            /\ Credits(<<X, Y, Z, W>>)[Z] = <<1, 10>>

\* The position-based model has run on the path (X,Y,Z,W).
C7_Witness ==
    /\ last_run = "position_based"
    /\ <<X, Y, Z, W>> \in DOMAIN path_tuple_to_summary
    /\ DOMAIN Credits(<<X, Y, Z, W>>) = {X, Y, Z, W}

InClassPipeline == pc \in {"init", "ready"}
InModelPipeline ==
    pc \in {"transform", "transformed", "attributed", "normalized", "failed"}

ConsumedRows == BagToSet(query_job)

(* C9 as stated: a path-summary record whose path_string is empty is      *)
(* stored under the empty-tuple key, distinct from every non-empty path,   *)
(* and that entry receives no channel credit from any attribution model.   *)
C9_Original ==
    (\E row \in ConsumedRows : row.path_str = EmptyStr) =>
        /\ InClassPipeline =>
               /\ <<>> \in DOMAIN path_tuple_to_summary
               /\ Credits(<<>>) = EmptyDict
        /\ InModelPipeline =>
               /\ <<>> \in DOMAIN transformed_tuple_to_path
               /\ transformed_tuple_to_path[<<>>].event_to_attribution = EmptyDict

\* The part of C9 that Fractribution.__init__ and its five models keep.
C9_ClassPipeline ==
    ((\E row \in ConsumedRows : row.path_str = EmptyStr) /\ InClassPipeline) =>
        /\ <<>> \in DOMAIN path_tuple_to_summary
        /\ Credits(<<>>) = EmptyDict

\* The sum of f[x] over the elements x of the set S, f of integers.
RECURSIVE IntSumOver(_, _)
IntSumOver(S, f) ==
    IF S = {} THEN 0
    ELSE LET x == CHOOSE x \in S : TRUE
         IN  f[x] + IntSumOver(S \ {x}, f)

\* The canonical tuple of a consumed row: for Fractribution the names of
\* its path string; for transform_paths the transform of their tokens.
ClassTuple(row) == row.path_str
ModelTuple(row) ==
    LET channels == Split(row.path_str)
    IN  transform_name_to_function(
            path_transform,
            [i \in 1..Len(channels) |-> channel_to_encoding[channels[i]]])

(* C10: the store built from any sequence of path-summary records holds   *)
(* exactly one entry per distinct canonical path tuple, and the entry's    *)
(* conversions and non-conversions are the sums of the respective counts   *)
(* of all records that map to that tuple.                                  *)
C10_StoreSumsCounts ==
    /\ InClassPipeline =>
           /\ DOMAIN path_tuple_to_summary = {ClassTuple(row) : row \in ConsumedRows}
           /\ \A t \in DOMAIN path_tuple_to_summary :
                  LET rows == {row \in ConsumedRows : ClassTuple(row) = t}
                  IN  /\ path_tuple_to_summary[t].conversions =
                             IntSumOver(rows, [row \in rows |->
                                 CopiesIn(row, query_job) * row.conversions])
                      /\ path_tuple_to_summary[t].non_conversions =
                             IntSumOver(rows, [row \in rows |->
                                 CopiesIn(row, query_job) * row.non_conversions])
    /\ pc \in {"transform", "transformed"} =>
           /\ DOMAIN transformed_tuple_to_path =
                  {ModelTuple(row) : row \in ConsumedRows}
           /\ \A t \in DOMAIN transformed_tuple_to_path :
                  LET rows == {row \in ConsumedRows : ModelTuple(row) = t}
                  IN  /\ transformed_tuple_to_path[t].path_tuple = t
                      /\ transformed_tuple_to_path[t].total_conversions =
                             IntSumOver(rows, [row \in rows |->
                                 CopiesIn(row, query_job) * row.num_conversions])
                      /\ transformed_tuple_to_path[t].total_non_conversions =
                             IntSumOver(rows, [row \in rows |->
                                 CopiesIn(row, query_job) * row.num_non_conversions])

\* transform_paths has returned a store in which three rows, two of them
\* with different path strings, make one entry that counts both kinds of
\* customers.
C10_Witness ==
    /\ pc = "transformed"
    /\ BagCardinality(query_job) = 3
    /\ \E t \in DOMAIN transformed_tuple_to_path :
           /\ Cardinality({row \in ConsumedRows : ModelTuple(row) = t}) = 2
           /\ BagCardinality(query_job) =
                  IntSumOver({row \in ConsumedRows : ModelTuple(row) = t},
                             [row \in ConsumedRows |-> CopiesIn(row, query_job)])
           /\ transformed_tuple_to_path[t].total_conversions = 2
           /\ transformed_tuple_to_path[t].total_non_conversions = 2


(* C11: when several path-summary records collapse to the same canonical   *)
(* path key, the revenue stored for that key is the sum of the revenues of *)
(* all those records, accumulated like the conversion counts.              *)
C11_Original ==
    InClassPipeline =>
        \A t \in DOMAIN path_tuple_to_summary :
            LET rows == {row \in ConsumedRows : ClassTuple(row) = t}
            IN  path_tuple_to_summary[t].revenue =
                    IntSumOver(rows, [row \in rows |->
                        CopiesIn(row, query_job) * row.revenue])

\* What __init__ does: the conversions of the rows of a key are summed, and
\* its revenue is the revenue of one of its rows (the first one consumed).
C11_RevenueOfOneRow ==
    InClassPipeline =>
        \A t \in DOMAIN path_tuple_to_summary :
            LET rows == {row \in ConsumedRows : ClassTuple(row) = t}
            IN  /\ path_tuple_to_summary[t].conversions =
                       IntSumOver(rows, [row \in rows |->
                           CopiesIn(row, query_job) * row.conversions])
                /\ \E row \in rows : path_tuple_to_summary[t].revenue = row.revenue


\* A step keeps every raw name of the encoder table with its token.
EncoderGrows ==
    \A channel \in DOMAIN channel_to_encoding :
        /\ channel \in DOMAIN channel_to_encoding'
        /\ channel_to_encoding'[channel] = channel_to_encoding[channel]

\* No two raw names share a token, and the inverted table decodes the token
\* of each raw name to that name.
EncoderRoundTrip ==
    /\ \A c1, c2 \in DOMAIN channel_to_encoding :
           c1 # c2 => channel_to_encoding[c1] # channel_to_encoding[c2]
    /\ \A channel \in DOMAIN channel_to_encoding :
           encoding_to_channel(channel_to_encoding)[channel_to_encoding[channel]]
               = channel

(* C12: while transform_paths folds its records the encoder table only     *)
(* grows: a raw name keeps the token it was given, two raw names never     *)
(* share a token, and decoding the token of an encoded raw name gives the  *)
(* raw name back.                                                          *)
C12_EncoderTable == []EncoderRoundTrip /\ [][EncoderGrows]_vars

\* transform_paths has folded three rows, the table holds two raw names,
\* and a name that was given its token by one row was met again by another.
C12_Witness ==
    /\ pc = "transformed"
    /\ BagCardinality(query_job) = 3
    /\ Cardinality(DOMAIN channel_to_encoding) = 2
    /\ \E r1, r2 \in ConsumedRows :
           /\ r1.path_str # r2.path_str
           /\ Range(Split(r1.path_str)) \cap Range(Split(r2.path_str)) # {}


\* The only call made so far is a call of the transform name, and it
\* returned.
Called(name) == pc = "transforms" /\ transform_calls = <<name>>

\* The number of maximal runs of equal tokens that begin in t[1..i].
RunIndex(t, i) == Cardinality({j \in 1..i : j = 1 \/ t[j] # t[j - 1]})

\* The position of the first occurrence of the token el in t.
FirstPosition(t, el) ==
    CHOOSE i \in 1..Len(t) : t[i] = el /\ \A j \in 1..(i - 1) : t[j] # el

\* The rank of the token el among the distinct tokens of t, by first
\* occurrence.
FirstSeenRank(t, el) ==
    Cardinality({other \in Range(t) :
                    FirstPosition(t, other) <= FirstPosition(t, el)})

(* C13: exposure_transform returns its input with every maximal run of     *)
(* equal consecutive tokens replaced by a single token and nothing else    *)
(* changed: the output has no two equal adjacent tokens, non-adjacent      *)
(* repeats are kept, and (D,A,B,B,C,D,C,C) becomes (D,A,B,C,D,C).          *)
C13_ExposureTransform ==
    Called("exposure") =>
        /\ Len(transform_output) = RunIndex(transform_input, Len(transform_input))
        /\ \A i \in 1..Len(transform_input) :
               transform_output[RunIndex(transform_input, i)] = transform_input[i]
        /\ \A k \in 1..(Len(transform_output) - 1) :
               transform_output[k] # transform_output[k + 1]
        /\ transform_input = ExampleTuple =>
               transform_output = <<D, A, B, C, D, C>>

\* exposure_transform returned for the example, whose repeats are both
\* adjacent (B B, C C) and apart (D, C).
C13_Witness ==
    /\ Called("exposure")
    /\ transform_input = ExampleTuple
    /\ Len(transform_output) = 6

(* C14: first_transform returns each distinct token of its input exactly   *)
(* once, ordered by the position of its first occurrence in the input, and *)
(* (D,A,B,B,C,D,C,C) becomes (D,A,B,C).                                    *)
C14_FirstTransform ==
    Called("first") =>
        /\ Len(transform_output) = Cardinality(Range(transform_input))
        /\ Range(transform_output) = Range(transform_input)
        /\ \A k \in 1..Len(transform_output) :
               FirstSeenRank(transform_input, transform_output[k]) = k
        /\ transform_input = ExampleTuple =>
               transform_output = <<D, A, B, C>>

\* first_transform returned for the example.
C14_Witness ==
    /\ Called("first")
    /\ transform_input = ExampleTuple
    /\ Len(transform_output) = 4

(* C15: exposure_transform and first_transform are idempotent: a second    *)
(* call on the result of the first returns that result again.              *)
C15_Idempotent ==
    [][\A name \in {"exposure", "first"} :
           (transform_calls = <<name>> /\ transform_calls' = <<name, name>>) =>
               /\ pc' = "transforms"
               /\ transform_output' = transform_output]_vars

\* Each of the two transforms was called twice on an input it shortens.
C15_Witness ==
    /\ pc = "transforms"
    /\ transform_calls \in {<<"exposure", "exposure">>, <<"first", "first">>}
    /\ Len(transform_output) < Len(transform_input)
    /\ Len(transform_output) >= 2


\* The text token(c) of the encoded names: base(c).
Counted(el, c) == [base |-> el.base, suffix |-> "(" \o ToString(c) \o ")"]

\* The number of occurrences of the token el in t.
Occurrences(t, el) == Cardinality({i \in 1..Len(t) : t[i] = el})

(* C16: frequency_transform returns one element per distinct token of its  *)
(* input, in first-seen order, each being the token followed by '(c)',     *)
(* c the total number of occurrences of the token in the whole input.      *)
C16_FrequencyTransform ==
    Called("frequency") =>
        /\ Len(transform_output) = Cardinality(Range(transform_input))
        /\ \A el \in Range(transform_input) :
               transform_output[FirstSeenRank(transform_input, el)] =
                   Counted(el, Occurrences(transform_input, el))

\* frequency_transform returned for a tuple in which a token comes back
\* after another one.
C16_Witness ==
    /\ Called("frequency")
    /\ \E i, j \in 1..Len(transform_input) :
           /\ i + 1 < j
           /\ transform_input[i] = transform_input[j]
           /\ transform_input[i + 1] # transform_input[i]
    /\ Len(transform_output) = 3

(* C17 as stated: the frequency transform applied to (D,A,B,B,C,D,C,C)     *)
(* yields (D(1),A(1),B(2),C(3)).                                           *)
C17_Original ==
    (Called("frequency") /\ transform_input = ExampleTuple) =>
        transform_output =
            <<Counted(D, 1), Counted(A, 1), Counted(B, 2), Counted(C, 3)>>

(* C17, amended: the frequency transform applied to (D,A,B,B,C,D,C,C)      *)
(* yields (D(2),A(1),B(2),C(3)): D occurs twice in the input.              *)
C17_FrequencyScenario ==
    (Called("frequency") /\ transform_input = ExampleTuple) =>
        /\ transform_output =
               <<Counted(D, 2), Counted(A, 1), Counted(B, 2), Counted(C, 3)>>
        /\ transform_output[1].suffix = "(2)"

\* frequency_transform returned for the example.
C17_Witness ==
    /\ Called("frequency")
    /\ transform_input = ExampleTuple
    /\ Len(transform_output) = 4


\* A consumed row holds a raw channel name with a parenthesis.
ParenthesisConsumed ==
    \E row \in ConsumedRows :
        \E i \in 1..Len(Split(row.path_str)) :
            HasParenthesis(Split(row.path_str)[i])

(* C18 as stated: when the frequency transform is selected and a raw       *)
(* channel name of a path-summary record holds '(' or ')', building the    *)
(* store with transform_paths fails with a ValueError instead of producing *)
(* a store.                                                                *)
C18_Original ==
    (InModelPipeline /\ path_transform = "frequency" /\ ParenthesisConsumed) =>
        pc = "failed"

\* What transform_paths does: frequency_transform is given the tokens of
\* the encoder, which hold no parenthesis, so that no row makes it raise
\* and the row is stored under the tuple of its counted tokens.
C18_NoValidation ==
    (InModelPipeline /\ path_transform = "frequency") =>
        /\ pc # "failed"
        /\ pc \in {"transform", "transformed"} =>
               DOMAIN transformed_tuple_to_path =
                   {ModelTuple(row) : row \in ConsumedRows}


\* The key cut at its first '('.
CutAtParenthesis(key) == [base |-> key.base, suffix |-> ""]

\* The credit map after is the credit map before with each key cut at its
\* first '(' and, for each cut key, the sum of the credits of the keys that
\* are cut to it; the total credit is the same.
NormalizedFrom(before, after) ==
    /\ DOMAIN after = {CutAtParenthesis(key) : key \in DOMAIN before}
    /\ \A base \in DOMAIN after :
           after[base] =
               SumOver({key \in DOMAIN before : CutAtParenthesis(key) = base},
                       before)
    /\ SumValues(after) = SumValues(before)

(* C19: the name normalizer replaces each key of a path's credit map by    *)
(* the key cut at its first '(' and gives each resulting base key the sum  *)
(* of the credits of all original keys that map to it, so that the total   *)
(* credit of every path is the same before and after, and applying the     *)
(* normalizer a second time changes nothing.                               *)
C19_Normalizer ==
    [][/\ (pc = "ready" /\ last_run' = "normalize") =>
              /\ DOMAIN path_tuple_to_summary' = DOMAIN path_tuple_to_summary
              /\ \A t \in DOMAIN path_tuple_to_summary :
                     NormalizedFrom(
                         path_tuple_to_summary[t].channel_to_attribution,
                         path_tuple_to_summary'[t].channel_to_attribution)
              /\ last_run = "normalize" =>
                     path_tuple_to_summary' = path_tuple_to_summary
       /\ pc' = "normalized" =>
              /\ DOMAIN transformed_tuple_to_path' =
                     DOMAIN transformed_tuple_to_path
              /\ \A t \in DOMAIN transformed_tuple_to_path :
                     NormalizedFrom(
                         transformed_tuple_to_path[t].event_to_attribution,
                         transformed_tuple_to_path'[t].event_to_attribution)
              /\ pc = "normalized" =>
                     transformed_tuple_to_path' = transformed_tuple_to_path
      ]_vars

\* The normalizer has given the key A of a path of two channel names the
\* credits of both.
C19_Witness ==
    /\ last_run = "normalize"
    /\ <<AParen, A2>> \in DOMAIN path_tuple_to_summary
    /\ DOMAIN Credits(<<AParen, A2>>) = {A}
    /\ Credits(<<AParen, A2>>)[A] = One


\* The canonical path of the customer joined last: the transform of the
\* tokens of its channels, all of which the encoder holds.
CustomerEncoded ==
    \A i \in 1..Len(Split(customer_path_string)) :
        Split(customer_path_string)[i] \in DOMAIN channel_to_encoding
CustomerTuple ==
    transform_name_to_function(
        path_transform,
        [i \in 1..Len(Split(customer_path_string)) |->
            channel_to_encoding[Split(customer_path_string)[i]]])

\* A customer was joined (the join returned or raised).
Joined == path_and_event_to_attribution # NotJoined

(* C20: for every customer record whose path string is empty, or whose     *)
(* canonical path has total_conversions == 0 in the store,                 *)
(* get_path_and_event_to_attribution returns the customer's input path     *)
(* string together with the default credit map {Unmatched Channel: 1.0}.   *)
C20_DefaultAttribution ==
    (/\ Joined
     /\ \/ customer_path_string = EmptyStr
        \/ /\ CustomerEncoded
           /\ CustomerTuple \in DOMAIN transformed_tuple_to_path
           /\ transformed_tuple_to_path[CustomerTuple].total_conversions = 0) =>
        /\ path_and_event_to_attribution.outcome = "returned"
        /\ path_and_event_to_attribution.path_string = customer_path_string
        /\ DOMAIN path_and_event_to_attribution.event_to_attribution =
               {UNMATCHED_CHANNEL}
        /\ path_and_event_to_attribution.event_to_attribution[UNMATCHED_CHANNEL]
               = One

\* The customer joined has a path of two channels that the store holds
\* without conversions, next to a path that has credits.
C20_Witness ==
    /\ Joined
    /\ Len(customer_path_string) = 2
    /\ CustomerEncoded
    /\ CustomerTuple \in DOMAIN transformed_tuple_to_path
    /\ transformed_tuple_to_path[CustomerTuple].total_conversions = 0
    /\ \E t \in DOMAIN transformed_tuple_to_path :
           transformed_tuple_to_path[t].event_to_attribution # EmptyDict


\* The channel columns of a report row (after its five leading columns and
\* before its last column).
ChannelColumns(row) == SubSeq(row, 6, Len(row) - 1)

\* The row carries the default credit map: 1 in each column of Unmatched
\* Channel and 0 in every other channel column.
DefaultRow(row) ==
    /\ Len(row) = 5 + Len(report_channels) + 1
    /\ \A i \in 1..Len(report_channels) :
           row[5 + i] = IF report_channels[i] = UNMATCHED_CHANNEL
                        THEN One ELSE Zero

\* The path string names a channel that the encoder table does not hold.
UnknownChannel(path_string) ==
    /\ path_string # EmptyStr
    /\ \E i \in 1..Len(path_string) :
           path_string[i] \notin DOMAIN channel_to_encoding

\* The channel list holds Unmatched Channel, as fractribution_report.py
\* asks of every channel list and as execute sees to.
ChannelListWithUnmatched == UNMATCHED_CHANNEL \in Range(report_channels)

\* The step of the join that reads a customer with an unknown channel adds
\* the row of that customer, with the default credit map, to the rows of
\* the customers before, and neither ends the join nor touches the encoder.
UnknownChannelStep ==
    (/\ pc = "joining"
     /\ ChannelListWithUnmatched
     /\ Len(report_customers') = Len(report_customers) + 1
     /\ UnknownChannel(report_customers'[Len(report_customers')].path_string)) =>
        /\ pc' = "joining"
        /\ report_raised' = "none"
        /\ Len(report_rows') = Len(report_rows) + 1
        /\ SubSeq(report_rows', 1, Len(report_rows)) = report_rows
        /\ DefaultRow(report_rows'[Len(report_rows')])
        /\ report_rows'[Len(report_rows')][3] =
               report_customers'[Len(report_customers')].path_string
        /\ report_rows'[Len(report_rows')][4] =
               report_customers'[Len(report_customers')].customer_id
        /\ channel_to_encoding' = channel_to_encoding

\* While the join runs, and when it has returned, each customer read has
\* its row, in the order of the customers.
OneRowPerCustomer ==
    pc \in {"joining", "joined"} =>
        /\ Len(report_rows) = Len(report_customers)
        /\ \A i \in 1..Len(report_rows) :
               report_rows[i][4] = report_customers[i].customer_id

(* C21: a customer path that contains a raw channel name absent from the   *)
(* encoder table does not abort join_customers_with_attribution_paths:     *)
(* that customer gets exactly one output row, with the default credit map  *)
(* {Unmatched Channel: 1.0}, the encoder table is not extended, and all    *)
(* other customers of the batch get their rows.                            *)
C21_UnknownChannel == []OneRowPerCustomer /\ [][UnknownChannelStep]_vars

\* The join returned the rows of three customers, the second of which has
\* the unknown channel C and the third of which has credits of its path.
C21_Witness ==
    /\ pc = "joined"
    /\ Len(report_customers) = 3
    /\ Len(report_rows) = 3
    /\ report_customers[2].path_string = <<A, C>>
    /\ DefaultRow(report_rows[2])
    /\ ~DefaultRow(report_rows[3])


\* The customer joined last has a path of known channels whose canonical
\* tuple is no key of the store.
CustomerTupleAbsent ==
    /\ Joined
    /\ customer_path_string # EmptyStr
    /\ CustomerEncoded
    /\ CustomerTuple \notin DOMAIN transformed_tuple_to_path

(* C22 as stated: for a customer path whose raw channel names are all      *)
(* known to the encoder but whose canonical (transformed) tuple is not a   *)
(* key of the store, the Report Joiner falls back to the default credit    *)
(* map {Unmatched Channel: 1.0}; it does not fail.                         *)
C22_Original ==
    CustomerTupleAbsent =>
        /\ pc # "failed"
        /\ path_and_event_to_attribution =
               Returned(customer_path_string, default_event_to_attribution)

\* What get_path_and_event_to_attribution does: the lookup of the tuple in
\* the store raises a KeyError, which ends the run.
C22_KeyError ==
    CustomerTupleAbsent =>
        /\ pc = "failed"
        /\ path_and_event_to_attribution = KeyError


\* The channel list is free of duplicates and holds every raw channel name
\* of the encoder and Unmatched Channel.
ChannelListComplete ==
    /\ \A i, j \in 1..Len(report_channels) :
           i # j => report_channels[i] # report_channels[j]
    /\ DOMAIN channel_to_encoding \subseteq Range(report_channels)
    /\ UNMATCHED_CHANNEL \in Range(report_channels)

(* C23: every row returned by join_customers_with_attribution_paths, for a *)
(* store built by transform_paths, attributed by compute_fractional_values *)
(* and normalized, and a duplicate-free channel list containing every raw  *)
(* channel name and 'Unmatched Channel', has 5 + |channels| + 1 columns,   *)
(* its last column total_attribution equals the sum of its channel         *)
(* columns, and that sum is 1; there is exactly one row per customer       *)
(* record.                                                                 *)
C23_ReportRows ==
    (pc \in {"joining", "joined"} /\ ChannelListComplete) =>
        /\ \A k \in 1..Len(report_rows) :
               LET row == report_rows[k]
               IN  /\ Len(row) = 5 + Len(report_channels) + 1
                   /\ row[Len(row)] = SumOver(6..(Len(row) - 1), row)
                   /\ row[Len(row)] = One
                   /\ row[4] = report_customers[k].customer_id
        /\ pc = "joined" => Len(report_rows) = Len(report_customers)

\* The join returned three rows for a complete channel list, one of which
\* splits the credit between two channels.
C23_Witness ==
    /\ pc = "joined"
    /\ ChannelListComplete
    /\ Len(report_rows) = 3
    /\ \E k \in 1..3 : \E i \in 6..(Len(report_rows[k]) - 1) :
           report_rows[k][i] \notin {Zero, One}


\* The credit map that the join of the last customer returned holds a
\* channel that the channel list does not hold.
SchemaMismatch ==
    \E channel \in DOMAIN path_and_event_to_attribution.event_to_attribution :
        \A i \in 1..Len(report_channels) : report_channels[i] # channel

(* C24: construct_report_table_row fails with a ValueError, returning no   *)
(* row, whenever the credit map contains a channel that is not in the      *)
(* caller-supplied channel list, and succeeds whenever every credited      *)
(* channel is in the list.                                                 *)
C24_SchemaMismatch ==
    (/\ report_customers # <<>>
     /\ path_and_event_to_attribution # NotJoined
     /\ path_and_event_to_attribution.outcome = "returned") =>
        IF SchemaMismatch
        THEN /\ report_raised = "ValueError"
             /\ pc = "failed"
             /\ Len(report_rows) = Len(report_customers) - 1
        ELSE /\ report_raised = "none"
             /\ Len(report_rows) = Len(report_customers)
             /\ \A i \in 1..Len(report_channels) :
                    report_rows[Len(report_rows)][5 + i] =
                        Get(path_and_event_to_attribution.event_to_attribution,
                            report_channels[i], Zero)

\* After the row of a first customer, the row of a customer whose path has
\* credit for B could not be made for a channel list without B.
C24_Witness ==
    /\ report_raised = "ValueError"
    /\ Len(report_rows) >= 1
    /\ B \in DOMAIN path_and_event_to_attribution.event_to_attribution
    /\ B \notin Range(report_channels)
    /\ A \in Range(report_channels)


\* The rows of the first n insert calls, in the order of the calls.
RECURSIVE InsertedRows(_)
InsertedRows(n) ==
    IF n = 0 THEN <<>>
    ELSE InsertedRows(n - 1) \o report_inserts[n].rows

\* An insert call reported errors.
InsertErrors == \E k \in 1..Len(report_inserts) : report_inserts[k].errors

InUpload == pc \in {"uploading", "uploaded"} \/ report_inserts # <<>>

\* Every insert call carries between one and _MAX_ROW_BATCH_SIZE rows, and
\* the rows inserted are those of the first customers, one each, in order.
InsertCalls ==
    /\ \A k \in 1..Len(report_inserts) :
           /\ Len(report_inserts[k].rows) >= 1
           /\ Len(report_inserts[k].rows) <= MAX_ROW_BATCH_SIZE
    /\ Len(InsertedRows(Len(report_inserts))) <= Len(report_customers)
    /\ \A i \in 1..Len(InsertedRows(Len(report_inserts))) :
           InsertedRows(Len(report_inserts))[i][4] =
               report_customers[i].customer_id

\* An insert call that reported errors is the last one, and it raised
\* RuntimeError.
InsertErrorsEnd ==
    /\ \A k \in 1..Len(report_inserts) :
           report_inserts[k].errors =>
               /\ k = Len(report_inserts)
               /\ pc = "failed"
               /\ report_raised = "RuntimeError"
    /\ report_raised = "RuntimeError" => InsertErrors

\* After RuntimeError no step makes a further insert.
NoInsertAfterError ==
    report_raised = "RuntimeError" => report_inserts' = report_inserts

SummaryCounts(path_summary) ==
    <<path_summary.conversions, path_summary.non_conversions,
      path_summary.revenue>>

\* A step on the built store of the class keeps its keys and their counts;
\* a step of the join keeps the store, its credit maps and the encoder.
FrameStep ==
    /\ pc = "ready" =>
           /\ DOMAIN path_tuple_to_summary' = DOMAIN path_tuple_to_summary
           /\ \A path_tuple \in DOMAIN path_tuple_to_summary :
                  SummaryCounts(path_tuple_to_summary'[path_tuple]) =
                      SummaryCounts(path_tuple_to_summary[path_tuple])
    /\ pc = "joining" =>
           /\ transformed_tuple_to_path' = transformed_tuple_to_path
           /\ channel_to_encoding' = channel_to_encoding
           /\ channel_mapping_iterator' = channel_mapping_iterator

\* C26: once the store is built, a run of an attribution model, a run of the
\* name normalizer and the join of a customer record never add or remove a
\* store key and never change the conversions, non_conversions or revenue
\* of a path; the join of a customer record also leaves every credit map
\* and the encoder table as they are.
C26_Frame == [][FrameStep]_vars

\* A model and then the normalizer ran on a store that holds a path with
\* revenue and credits, and a path whose credit map is empty.
C26_Witness ==
    /\ pc = "ready"
    /\ last_run = "normalize"
    /\ models_run > 0
    /\ \E path_tuple \in DOMAIN path_tuple_to_summary :
           /\ path_tuple_to_summary[path_tuple].revenue > 0
           /\ path_tuple_to_summary[path_tuple].channel_to_attribution
                  # EmptyDict
    /\ \E path_tuple \in DOMAIN path_tuple_to_summary :
           path_tuple_to_summary[path_tuple].channel_to_attribution
               = EmptyDict

\* The store as the constructor left it: the same keys and counts, every
\* credit map empty.
FreshCopy(store) ==
    [path_tuple \in DOMAIN store |->
        [store[path_tuple] EXCEPT !.channel_to_attribution = EmptyDict]]

\* The credit maps equal those of the last model run alone on a fresh copy.
AsRunAlone ==
    \A path_tuple \in DOMAIN path_tuple_to_summary :
        Credits(path_tuple) =
            ATTRIBUTION_MODELS(last_run, FreshCopy(path_tuple_to_summary))
                [path_tuple].channel_to_attribution

(* C27 as stated: the credit maps that run_fractribution(m) produces       *)
(* depend on the keys and counts of the store and on m only: after a run   *)
(* of a model m1 and then of a model m2, every path has the credit map     *)
(* that m2 alone gives it on a freshly built copy of the store.            *)
C27_Original ==
    (pc = "ready" /\ models_run = 2 /\ last_run \in AttributionModels) =>
        AsRunAlone

\* What holds of a second run: it gives the credits of a run alone unless
\* it is a shapley run, which keeps the credit maps of the paths without
\* conversions as the run before left them.
C27_SecondRun ==
    (pc = "ready" /\ models_run = 2 /\ last_run \in AttributionModels) =>
        \A path_tuple \in DOMAIN path_tuple_to_summary :
            (last_run # "shapley" \/ Converted(path_tuple)) =>
                Credits(path_tuple) =
                    ATTRIBUTION_MODELS(last_run,
                                       FreshCopy(path_tuple_to_summary))
                        [path_tuple].channel_to_attribution

\* The conversions of the given paths of the store, summed.
RECURSIVE TotalConversions(_)
TotalConversions(path_tuples) ==
    IF path_tuples = {} THEN 0
    ELSE LET path_tuple == CHOOSE path_tuple \in path_tuples : TRUE
         IN  path_tuple_to_summary[path_tuple].conversions
                 + TotalConversions(path_tuples \ {path_tuple})

Uncredited ==
    {path_tuple \in DOMAIN path_tuple_to_summary :
        Credits(path_tuple) = EmptyDict}

\* C28: in the rollup by channel that _get_channel_to_attribution computes
\* after a model has run, the attributed conversions summed over all
\* channels equal the conversions summed over all paths of the store, and
\* Unmatched_Channel holds the conversions of the paths whose credit map is
\* empty.
C28_Rollup ==
    (pc = "reported" /\ models_run > 0) =>
        /\ SumValues(overall_channel_to_attribution) =
               RInt(TotalConversions(DOMAIN path_tuple_to_summary))
        /\ Get(overall_channel_to_attribution, Unmatched_Channel, Zero) =
               RInt(TotalConversions(Uncredited))

\* The rollup of a store after a shapley run: a converted path without
\* credits, and two channels that share the conversions of another path.
C28_Witness ==
    /\ pc = "reported"
    /\ last_run = "shapley"
    /\ TotalConversions(Uncredited) > 0
    /\ TotalConversions(DOMAIN path_tuple_to_summary) >
           TotalConversions(Uncredited)
    /\ \E channel \in DOMAIN overall_channel_to_attribution :
           /\ channel # Unmatched_Channel
           /\ overall_channel_to_attribution[channel][2] # 1

\* The orders in which the rows of a bag can be read, and the orders in
\* which the keys of a store can be visited.
RowOrders(rows) ==
    {query \in [1..BagCardinality(rows) -> BagToSet(rows)] :
        SeqToBag(query, Len(query)) = rows}
KeyOrders(store) ==
    {order \in [1..Cardinality(DOMAIN store) -> DOMAIN store] :
        Range(order) = DOMAIN store}

\* The counts and the credit map of every path of a store of the class.
CountsAndCredits(store) ==
    [path_tuple \in DOMAIN store |->
        <<store[path_tuple].conversions, store[path_tuple].non_conversions,
          store[path_tuple].channel_to_attribution>>]

\* A store of the model pipeline in raw channel names: the decoded path
\* of every key with its counts and its credit map by decoded event.
RawStore(store, encoding) ==
    LET decoding == encoding_to_channel(encoding)
        raw(t) == Path_get_path_string(store[t], decoding)
    IN  [path \in {raw(t) : t \in DOMAIN store} |->
            LET t == CHOOSE t \in DOMAIN store : raw(t) = path
                credits == store[t].event_to_attribution
            IN  <<store[t].total_conversions, store[t].total_non_conversions,
                  [channel \in {decoded_event(event, decoding) :
                                   event \in DOMAIN credits} |->
                      credits[CHOOSE event \in DOMAIN credits :
                                  decoded_event(event, decoding) = channel]]>>]

\* C29: for a fixed collection of path-summary records and a fixed model,
\* the counts and the credit maps of the paths, in raw channel names, are
\* the same for every order in which the records are folded into the store
\* and every order in which the model visits the entries of the store.
C29_OrderIndependent ==
    /\ (pc = "ready" /\ models_run = 0) =>
           \A query \in RowOrders(query_job) :
               CountsAndCredits(Fractribution_init(query, Len(query))) =
                   CountsAndCredits(path_tuple_to_summary)
    /\ (pc = "ready" /\ models_run = 1 /\ last_run \in AttributionModels) =>
           \A query \in RowOrders(query_job) :
               LET store == Fractribution_init(query, Len(query))
               IN  \A order \in KeyOrders(store) :
                       CountsAndCredits(
                           run_in_order(last_run, store, order, Len(order))) =
                               CountsAndCredits(path_tuple_to_summary)
    /\ pc = "attributed" =>
           \A query \in RowOrders(query_job) :
               LET built == transform_paths_result(query, Len(query),
                                                   path_transform)
                   store == built.transformed_tuple_to_path
               IN  \A order \in KeyOrders(store) :
                       RawStore(compute_in_order(store, order, Len(order)),
                                built.channel_to_encoding) =
                           RawStore(transformed_tuple_to_path,
                                    channel_to_encoding)

\* The counterfactual model has run on a store of three paths built from
\* three rows: the path of two channels shares its credit between them.
C29_Witness ==
    /\ pc = "ready"
    /\ models_run = 1
    /\ last_run = "shapley"
    /\ BagCardinality(query_job) = 3
    /\ Cardinality(DOMAIN path_tuple_to_summary) = 3
    /\ \E path_tuple \in DOMAIN path_tuple_to_summary :
           /\ Cardinality(DOMAIN Credits(path_tuple)) = 2
           /\ \A channel \in DOMAIN Credits(path_tuple) :
                  /\ RLess(Zero, Credits(path_tuple)[channel])
                  /\ RLess(Credits(path_tuple)[channel], One)

\* The value of the parameter of the call, and what the claim asks of it.
ParamValue == Get(parse_int.input_params, Param, ParamNone)
Defined == ParamValue.type # "NoneType"
ParsesAsInteger == Defined /\ ~int_raises(ParamValue)
WithinBounds ==
    /\ parse_int.lower_bound # NoBound =>
           int(ParamValue) >= parse_int.lower_bound[1]
    /\ parse_int.upper_bound # NoBound =>
           int(ParamValue) <= parse_int.upper_bound[1]
ParseIntReturned == pc \in {"parsed", "rejected"}

(* C30 as stated: parse_int_param returns the integer value of the named   *)
(* parameter whenever the parameter is defined, parses as an integer, is   *)
(* at least lower_bound when lower_bound is not None and at most           *)
(* upper_bound when upper_bound is not None; in every other case it raises *)
(* ValueError.                                                             *)
C30_Original ==
    ParseIntReturned =>
        IF Defined /\ ParsesAsInteger /\ WithinBounds
        THEN parse_int.result = IntReturned(int(ParamValue))
        ELSE parse_int.result.outcome = "ValueError"

\* What parse_int_param does: it takes the int 0 for a missing parameter,
\* and it skips the check against a bound that is 0.
C30_ParseIntParam ==
    ParseIntReturned =>
        IF /\ Defined /\ ParsesAsInteger
           /\ ~(ParamValue.type = "int" /\ ParamValue.int = 0)
           /\ (BoundTruthy(parse_int.lower_bound) =>
                   int(ParamValue) >= parse_int.lower_bound[1])
           /\ (BoundTruthy(parse_int.upper_bound) =>
                   int(ParamValue) <= parse_int.upper_bound[1])
        THEN parse_int.result = IntReturned(int(ParamValue))
        ELSE parse_int.result.outcome = "ValueError"

\* The calls that show the two divergences: the int 0 with no lower bound
\* above it is rejected, and a negative text is returned under the lower
\* bound 0.
C30_ZeroRejected ==
    /\ pc = "rejected"
    /\ Defined /\ ParamValue.type = "int" /\ ParamValue.int = 0
    /\ parse_int.lower_bound = Bound(0)
    /\ parse_int.upper_bound = NoBound
C30_LowerBoundZeroSkipped ==
    /\ pc = "parsed"
    /\ parse_int.lower_bound = Bound(0)
    /\ parse_int.result.int < 0
=============================================================================
